---- MODULE Spec2Model ----
(***************************************************************************)
(* Telemetry and alerting pipeline of the banking bot:                     *)
(*   monitoring/metrics_collector.py   MetricsCollector                    *)
(*   monitoring/performance_tracker.py PerformanceTracker                  *)
(*   monitoring/alerts.py              AlertSystem                         *)
(*                                                                         *)
(* Time is one integer clock `now`, in milliseconds.  time.time() (float   *)
(* seconds) and datetime.now() are both readings of it; a latency          *)
(* (end - start) * 1000 is the difference of two readings.                 *)
(*                                                                         *)
(* A Python dict is an insertion-ordered map: it is modelled as a sequence *)
(* of entries [key, val] with distinct keys (Dict* operators below).       *)
(***************************************************************************)
EXTENDS Integers, Sequences, FiniteSets, TLC

VARIABLES
    now,                  \* the wall clock, ms
    \* ---- AlertSystem (alerts.py) ----
    active_alerts,        \* self.active_alerts: dict id -> alert
    resolved_alerts,      \* self.resolved_alerts: list of alerts
    alert_handlers,       \* self.alert_handlers: type -> list of handlers
    thresholds,           \* self.thresholds: type -> key -> value
    alert_files,          \* the files of alerts_dir: file name -> alert written
    monitor_wake,         \* the time the monitor thread's sleep(60) ends
    \* ---- PerformanceTracker (performance_tracker.py) ----
    traces,               \* self.traces: dict trace id -> open span
    historical_data,      \* self.historical_data: dict category -> list of spans
    tracker_thresholds,   \* self.thresholds: category -> ms
    \* ---- MetricsCollector (metrics_collector.py) ----
    active_contexts,      \* self.active_contexts: dict request id -> context
    historical_metrics,   \* self.historical_metrics: list of records
    total_requests,
    successful_requests,
    failed_requests,
    total_latency_ms,
    tool_usage,           \* Counter
    agent_usage,          \* Counter
    guardrail_blocks,
    \* ---- threads in the middle of a call: thread -> its position (pc) and
    \* local variables; empty while every call runs to its end in one step ----
    threads,
    \* ---- the call just made: its name, arguments and result ----
    lastOp

vars == <<now, active_alerts, resolved_alerts, alert_handlers, thresholds,
          alert_files, monitor_wake, traces, historical_data,
          tracker_thresholds, active_contexts, historical_metrics,
          total_requests, successful_requests, failed_requests,
          total_latency_ms, tool_usage, agent_usage, guardrail_blocks, threads,
          lastOp>>

alertVars == <<active_alerts, resolved_alerts, alert_handlers, thresholds,
               alert_files, monitor_wake>>
trackerVars == <<traces, historical_data, tracker_thresholds>>
collectorVars == <<active_contexts, historical_metrics, total_requests,
                   successful_requests, failed_requests, total_latency_ms,
                   tool_usage, agent_usage, guardrail_blocks>>

\* Python's None where a text is expected; an optional number is <<>> (None)
\* or <<v>>.
None == "None"
NoValue == <<>>
Some(v) == <<v>>

(***************************************************************************)
(* Bounds of the model.  The three list caps are 1000 in the source        *)
(* (alerts.py:186, metrics_collector.py:53, performance_tracker.py:128);   *)
(* the model scales them down so that eviction is reached.  The code       *)
(* compares a length with the cap and never uses its value otherwise.      *)
(***************************************************************************)
ResolvedCap == 2
MaxHistorical == 1
TraceCap == 20
MaxAlerts == 2          \* alerts alive (active + archived) before a manual trigger
MaxMinutes == 2         \* minutes the clock runs
MaxRequestBatches == 1  \* request batches fed to the collector
MaxUserHandlers == 2    \* handlers registered on top of the two defaults
MaxRequests == 2        \* start_request calls
MaxRecords == 1         \* record_* calls held by the contexts and the history
MaxTraces == 2          \* spans alive (open + recorded) before a start_trace
MaxTicks == 2           \* clock ticks of the tracker's callers
TickMs == 50            \* milliseconds in one such tick
MaxSamples == 22        \* spans of one category traced before the metrics are read
MaxShift == 3           \* rotations of the durations of those spans
MaxServed == 20         \* requests served before the error rate is looked at

(***************************************************************************)
(* Program constants.                                                      *)
(***************************************************************************)
MinP95Samples == 20           \* performance_tracker.py:171
MinErrorRateRequests == 10    \* alerts.py:304
MonitorSleepMs == 60000       \* alerts.py:333  time.sleep(60)
HashModulus == 10000          \* alerts.py:133, performance_tracker.py:81

(***************************************************************************)
(* Insertion-ordered dict.                                                 *)
(***************************************************************************)
DictKeys(d) == {d[i].key : i \in DOMAIN d}
DictHas(d, k) == \E i \in DOMAIN d : d[i].key = k
DictGet(d, k) == d[CHOOSE i \in DOMAIN d : d[i].key = k].val
DictPut(d, k, v) ==
    IF DictHas(d, k)
    THEN LET i == CHOOSE j \in DOMAIN d : d[j].key = k
         IN  SubSeq(d, 1, i - 1) \o <<[key |-> k, val |-> v]>> \o SubSeq(d, i + 1, Len(d))
    ELSE Append(d, [key |-> k, val |-> v])
DictPop(d, k) == SelectSeq(d, LAMBDA e : e.key # k)
DictValues(d) == [i \in DOMAIN d |-> d[i].val]

Max(a, b) == IF a >= b THEN a ELSE b

(***************************************************************************)
(* Enumerations, in declaration order.                                     *)
(***************************************************************************)
AlertSeverity == <<"info", "warning", "error", "critical">>
AlertType == <<"performance", "error_rate", "guardrail", "usage", "security", "system">>
SeqRange(s) == {s[i] : i \in DOMAIN s}

\* list.index(x): the first position of x, zero-based
IndexOf(s, x) == (CHOOSE i \in DOMAIN s : s[i] = x /\ \A j \in 1..(i-1) : s[j] # x) - 1


(***************************************************************************)
(* Formatted strings.  A string built by an f-string is the sequence of    *)
(* its "_"-separated fields; a field is text (S) or a number (N).  Two     *)
(* such strings are equal iff they have the same fields: no category,      *)
(* type or status of the model is a digit string or contains the text of   *)
(* another field.                                                          *)
(***************************************************************************)
S(text) == [s |-> text, n |-> 0]
N(num) == [s |-> "", n |-> num]

\* now.strftime('%Y%m%d%H%M%S'): the second
SecondStamp(t) == N(t \div 1000)
\* now.strftime('%Y%m%d_%H'): two fields, the day and the hour of the day
DayStamp(t) == N(t \div 86400000)
HourStamp(t) == N((t \div 3600000) % 24)

(***************************************************************************)
(* hash(text) % 10000.  Python's str hash is a function of the text,       *)
(* seeded per process; the model fixes one such function.  A text is a     *)
(* tuple: <<text>> or <<template, category-or-"", number, number>>.        *)
(***************************************************************************)
TextCode(name) ==
    CASE name = "m1" -> 11
      [] name = "m2" -> 12
      [] name = "op" -> 21
      [] name = "api_request" -> 31
      [] name = "database_query" -> 32
      [] OTHER -> 0
HashMod(text) ==
    IF Len(text) = 1
    THEN TextCode(text[1]) % HashModulus
    ELSE (7919 * TextCode(text[2]) + 31 * text[3] + text[4]) % HashModulus

(***************************************************************************)
(* AlertSystem: trigger_alert, resolve_alert, get_active_alerts,           *)
(* _save_alert.  `A` is the record [active, resolved, files] of the three  *)
(* structures these methods change.                                        *)
(***************************************************************************)
\* alerts.py:133
AlertId(alert_type, t, message) ==
    <<S(alert_type), SecondStamp(t), N(HashMod(message))>>

\* alerts.py:226  f"{status}_{alert_type}_{alert['id']}.json"
AlertFileName(status, alert_type, alert_id) ==
    <<S(status), S(alert_type)>> \o alert_id

\* alerts.py:221-239.  io_ok = FALSE: open() raises, the exception is caught
\* and logged, no file changes.
SaveAlert(files, alert, io_ok) ==
    IF ~io_ok THEN files
    ELSE LET filepath == AlertFileName(alert.status, alert.type, alert.id)
             written == (filepath :> alert) @@ files
             active_file == AlertFileName("active", alert.type, alert.id)
         IN  IF alert.status = "resolved" /\ active_file \in DOMAIN written
             THEN [f \in DOMAIN written \ {active_file} |-> written[f]]
             ELSE written

\* CallHandlers without the try/except: the first exception ends the loop
RECURSIVE CallHandlersUncaught(_, _, _)
CallHandlersUncaught(handlers, alert, raisers) ==
    IF handlers = <<>> THEN <<>>
    ELSE <<[handler |-> Head(handlers), alert_id |-> alert.id,
            raised |-> Head(handlers) \in raisers]>>
         \o (IF Head(handlers) \in raisers THEN <<>>
             ELSE CallHandlersUncaught(Tail(handlers), alert, raisers))

\* alerts.py:154-158: every handler is called; an exception is caught and
\* logged, and the loop goes on.  `raisers`: the handlers that raise.
RECURSIVE CallHandlers(_, _, _)
CallHandlers(handlers, alert, raisers) ==
    IF handlers = <<>> THEN <<>>
    ELSE <<[handler |-> Head(handlers), alert_id |-> alert.id,
            raised |-> Head(handlers) \in raisers]>>
         \o CallHandlers(Tail(handlers), alert, raisers)

\* trigger_alert with a _save_alert that lets the I/O error through: the
\* call ends after the insert, no handler is called
TriggerAlertOpSaveRaises(A, handlers, alert_type, severity, message, details, t, io_ok, raisers) ==
    LET alert_id == AlertId(alert_type, t, message)
        alert == [id |-> alert_id, type |-> alert_type, severity |-> severity,
                  message |-> message, details |-> details, timestamp |-> t,
                  status |-> "active", resolved_at |-> NoValue,
                  resolution_message |-> NoValue]
    IN  [active |-> DictPut(A.active, alert_id, alert),
         resolved |-> A.resolved,
         files |-> SaveAlert(A.files, alert, io_ok),
         calls |-> IF io_ok THEN CallHandlers(handlers[alert_type], alert, raisers)
                   ELSE <<>>,
         ret |-> alert_id]

\* alerts.py:118-161
TriggerAlertOp(A, handlers, alert_type, severity, message, details, t, io_ok, raisers) ==
    LET alert_id == AlertId(alert_type, t, message)
        alert == [id |-> alert_id, type |-> alert_type, severity |-> severity,
                  message |-> message, details |-> details, timestamp |-> t,
                  status |-> "active", resolved_at |-> NoValue,
                  resolution_message |-> NoValue]
    IN  [active |-> DictPut(A.active, alert_id, alert),
         resolved |-> A.resolved,
         files |-> SaveAlert(A.files, alert, io_ok),
         calls |-> CallHandlers(handlers[alert_type], alert, raisers),
         ret |-> alert_id]

\* resolve_alert without the membership test of line 175: an unknown id is
\* reported resolved
ResolveAlertOpUnchecked(A, alert_id, resolution_message, t, io_ok) ==
    IF ~DictHas(A.active, alert_id)
    THEN [active |-> A.active, resolved |-> A.resolved, files |-> A.files,
          ret |-> TRUE]
    ELSE LET alert == [DictGet(A.active, alert_id) EXCEPT
                          !.status = "resolved",
                          !.resolved_at = Some(t),
                          !.resolution_message = resolution_message]
             appended == Append(A.resolved, alert)
         IN  [active |-> DictPop(A.active, alert_id),
              resolved |-> IF Len(appended) > ResolvedCap THEN Tail(appended)
                           ELSE appended,
              files |-> SaveAlert(A.files, alert, io_ok),
              ret |-> TRUE]

\* resolve_alert dropping the newest alert of a full archive
ResolveAlertOpDropsNewest(A, alert_id, resolution_message, t, io_ok) ==
    IF ~DictHas(A.active, alert_id)
    THEN [active |-> A.active, resolved |-> A.resolved, files |-> A.files,
          ret |-> FALSE]
    ELSE LET alert == [DictGet(A.active, alert_id) EXCEPT
                          !.status = "resolved",
                          !.resolved_at = Some(t),
                          !.resolution_message = resolution_message]
             appended == Append(A.resolved, alert)
         IN  [active |-> DictPop(A.active, alert_id),
              resolved |-> IF Len(appended) > ResolvedCap
                           THEN SubSeq(appended, 1, ResolvedCap)
                           ELSE appended,
              files |-> SaveAlert(A.files, alert, io_ok),
              ret |-> TRUE]

\* alerts.py:163-193
ResolveAlertOp(A, alert_id, resolution_message, t, io_ok) ==
    IF ~DictHas(A.active, alert_id)
    THEN [active |-> A.active, resolved |-> A.resolved, files |-> A.files,
          ret |-> FALSE]
    ELSE LET alert == [DictGet(A.active, alert_id) EXCEPT
                          !.status = "resolved",
                          !.resolved_at = Some(t),
                          !.resolution_message = resolution_message]
             appended == Append(A.resolved, alert)
         IN  [active |-> DictPop(A.active, alert_id),
              resolved |-> IF Len(appended) > ResolvedCap THEN Tail(appended)
                           ELSE appended,
              files |-> SaveAlert(A.files, alert, io_ok),
              ret |-> TRUE]

\* get_active_alerts with > for >= at line 217
GetActiveAlertsStrict(active, alert_type, min_severity) ==
    LET alerts == DictValues(active)
        by_type == IF alert_type # None
                   THEN SelectSeq(alerts, LAMBDA a : a.type = alert_type)
                   ELSE alerts
    IN  IF min_severity # None
        THEN LET min_idx == IndexOf(AlertSeverity, min_severity)
             IN  SelectSeq(by_type,
                           LAMBDA a : IndexOf(AlertSeverity, a.severity) > min_idx)
        ELSE by_type

\* alerts.py:195-219.  alert_type, min_severity: a value or None.
GetActiveAlerts(active, alert_type, min_severity) ==
    LET alerts == DictValues(active)
        by_type == IF alert_type # None
                   THEN SelectSeq(alerts, LAMBDA a : a.type = alert_type)
                   ELSE alerts
    IN  IF min_severity # None
        THEN LET min_idx == IndexOf(AlertSeverity, min_severity)
             IN  SelectSeq(by_type,
                           LAMBDA a : IndexOf(AlertSeverity, a.severity) >= min_idx)
        ELSE by_type


(***************************************************************************)
(* PerformanceTracker.  `T` is the record [traces, historical_data].       *)
(***************************************************************************)
\* performance_tracker.py:81
TraceId(name, t) == <<S(name), N(t), N(HashMod(<<name>>))>>

\* performance_tracker.py:66-95
StartTraceOp(T, name, category, request_id, parent, t) ==
    LET trace_id == TraceId(name, t)
        span == [name |-> name, category |-> category, start_time |-> t,
                 end_time |-> NoValue, duration_ms |-> NoValue,
                 metadata |-> [request_id |-> request_id], parent |-> parent]
    IN  [traces |-> DictPut(T.traces, trace_id, span),
         historical_data |-> T.historical_data,
         ret |-> trace_id]

\* _check_threshold with >= for > at line 144
CheckThresholdInclusive(trace, thr) ==
    /\ trace.category \in DOMAIN thr
    /\ trace.duration_ms[1] >= thr[trace.category]

\* performance_tracker.py:141-148: TRUE iff the warning is logged
CheckThreshold(trace, thr) ==
    /\ trace.category \in DOMAIN thr
    /\ trace.duration_ms[1] > thr[trace.category]

\* end_trace creating a history list before it looks the trace up
EndTraceOpListFirst(T, thr, trace_id, success, t) ==
    IF ~DictHas(T.traces, trace_id)
    THEN [traces |-> T.traces,
          historical_data |-> IF DictHas(T.historical_data, "unknown")
                              THEN T.historical_data
                              ELSE DictPut(T.historical_data, "unknown", <<>>),
          ret |-> <<>>, warned |-> FALSE]
    ELSE LET open == DictGet(T.traces, trace_id)
             trace == [open EXCEPT
                          !.end_time = Some(t),
                          !.duration_ms = Some(t - open.start_time),
                          !.metadata = [request_id |-> open.metadata.request_id,
                                        success |-> success]]
             category == trace.category
             old == IF DictHas(T.historical_data, category)
                    THEN DictGet(T.historical_data, category) ELSE <<>>
             appended == Append(old, trace)
             capped == IF Len(appended) > TraceCap THEN Tail(appended) ELSE appended
         IN  [traces |-> DictPop(T.traces, trace_id),
              historical_data |-> DictPut(T.historical_data, category, capped),
              ret |-> <<trace>>,
              warned |-> CheckThreshold(trace, thr)]

\* end_trace making room in the oldest category when a list is full
EndTraceOpEvictsOldestCategory(T, thr, trace_id, success, t) ==
    IF ~DictHas(T.traces, trace_id)
    THEN [traces |-> T.traces, historical_data |-> T.historical_data,
          ret |-> <<>>, warned |-> FALSE]
    ELSE LET open == DictGet(T.traces, trace_id)
             trace == [open EXCEPT
                          !.end_time = Some(t),
                          !.duration_ms = Some(t - open.start_time),
                          !.metadata = [request_id |-> open.metadata.request_id,
                                        success |-> success]]
             category == trace.category
             old == IF DictHas(T.historical_data, category)
                    THEN DictGet(T.historical_data, category) ELSE <<>>
             appended == DictPut(T.historical_data, category, Append(old, trace))
         IN  [traces |-> DictPop(T.traces, trace_id),
              historical_data |->
                  IF Len(old) + 1 > TraceCap
                  THEN DictPut(appended, appended[1].key, Tail(appended[1].val))
                  ELSE appended,
              ret |-> <<trace>>,
              warned |-> CheckThreshold(trace, thr)]

\* performance_tracker.py:97-134.  ret: <<>> (None) or <<the span>>.
EndTraceOp(T, thr, trace_id, success, t) ==
    IF ~DictHas(T.traces, trace_id)
    THEN [traces |-> T.traces, historical_data |-> T.historical_data,
          ret |-> <<>>, warned |-> FALSE]
    ELSE LET open == DictGet(T.traces, trace_id)
             trace == [open EXCEPT
                          !.end_time = Some(t),
                          !.duration_ms = Some(t - open.start_time),
                          !.metadata = [request_id |-> open.metadata.request_id,
                                        success |-> success]]
             category == trace.category
             old == IF DictHas(T.historical_data, category)
                    THEN DictGet(T.historical_data, category) ELSE <<>>
             appended == Append(old, trace)
             capped == IF Len(appended) > TraceCap THEN Tail(appended) ELSE appended
         IN  [traces |-> DictPop(T.traces, trace_id),
              historical_data |-> DictPut(T.historical_data, category, capped),
              ret |-> <<trace>>,
              warned |-> CheckThreshold(trace, thr)]

\* sorted(durations): position k holds the value with fewer than k smaller
\* entries and at least k entries not above it
Sorted(xs) ==
    [k \in DOMAIN xs |->
        CHOOSE v \in {xs[i] : i \in DOMAIN xs} :
            /\ Cardinality({i \in DOMAIN xs : xs[i] < v}) < k
            /\ Cardinality({i \in DOMAIN xs : xs[i] <= v}) >= k]

RECURSIVE Sum(_)
Sum(xs) == IF xs = <<>> THEN 0 ELSE Head(xs) + Sum(Tail(xs))

\* the p95 taken one position too low (a one-based index)
P95OneBelow(durations) ==
    IF Len(durations) >= MinP95Samples
    THEN Some(Sorted(durations)[(Len(durations) * 95) \div 100])
    ELSE NoValue

\* performance_tracker.py:171.  int(len * 0.95) = (len * 95) \div 100 for
\* every len up to the cap (the float product rounds to the exact value).
P95(durations) ==
    IF Len(durations) >= MinP95Samples
    THEN Some(Sorted(durations)[((Len(durations) * 95) \div 100) + 1])
    ELSE NoValue

\* statistics.median: the middle value, or the mean of the two middle ones;
\* a quotient is the pair <<numerator, denominator>>
Median(durations) ==
    LET srt == Sorted(durations)
        n == Len(srt)
    IN  IF n % 2 = 1 THEN <<srt[(n \div 2) + 1], 1>>
        ELSE <<srt[n \div 2] + srt[(n \div 2) + 1], 2>>

\* performance_tracker.py:167-176
CategoryMetrics(category, spans, thr) ==
    LET durations == [i \in DOMAIN spans |-> spans[i].duration_ms[1]]
        srt == Sorted(durations)
        limit == IF category \in DOMAIN thr THEN Some(thr[category]) ELSE NoValue
    IN  [count |-> Len(durations),
         average_ms |-> <<Sum(durations), Len(durations)>>,
         median_ms |-> Median(durations),
         p95_ms |-> P95(durations),
         min_ms |-> srt[1],
         max_ms |-> srt[Len(srt)],
         threshold_ms |-> limit,
         threshold_exceeded_count |->
            IF limit = NoValue THEN 0
            ELSE Cardinality({i \in DOMAIN durations : durations[i] > limit[1]})]

\* performance_tracker.py:150-178: a dict category -> metrics, in the order
\* of historical_data, without the categories that have no span
RECURSIVE GetPerformanceMetrics(_, _)
GetPerformanceMetrics(hd, thr) ==
    IF hd = <<>> THEN <<>>
    ELSE LET e == Head(hd)
             rest == GetPerformanceMetrics(Tail(hd), thr)
         IN  IF e.val = <<>> THEN rest
             ELSE <<[key |-> e.key, val |-> CategoryMetrics(e.key, e.val, thr)]>> \o rest


(***************************************************************************)
(* MetricsCollector.  `C` is the record of the collector's fields.         *)
(***************************************************************************)
\* Counter[k] += 1
CounterInc(counter, k) ==
    DictPut(counter, k, (IF DictHas(counter, k) THEN DictGet(counter, k) ELSE 0) + 1)

\* metrics_collector.py:17-32: a fresh MetricsContext
NewContext(request_id, user_id, session_id, t) ==
    [request_id |-> request_id, user_id |-> user_id, session_id |-> session_id,
     start_time |-> t, end_time |-> NoValue,
     llm_call_count |-> 0, llm_tokens_in |-> 0, llm_tokens_out |-> 0,
     tool_calls |-> <<>>, agent_calls |-> <<>>, guardrail_blocks |-> 0,
     errors |-> <<>>, latency_ms |-> NoValue]

\* start_request keeping the context an active id already has (setdefault)
StartRequestOpKeepExisting(C, request_id, user_id, session_id, t) ==
    [C EXCEPT
        !.active_contexts =
            IF DictHas(C.active_contexts, request_id) THEN C.active_contexts
            ELSE DictPut(C.active_contexts, request_id,
                         NewContext(request_id, user_id, session_id, t)),
        !.total_requests = C.total_requests + 1]

\* start_request counting only the ids that are not active
StartRequestOpCountsNewIds(C, request_id, user_id, session_id, t) ==
    [C EXCEPT
        !.active_contexts = DictPut(C.active_contexts, request_id,
                                    NewContext(request_id, user_id, session_id, t)),
        !.total_requests = IF DictHas(C.active_contexts, request_id)
                           THEN C.total_requests
                           ELSE C.total_requests + 1]

\* metrics_collector.py:73-88
StartRequestOp(C, request_id, user_id, session_id, t) ==
    [C EXCEPT
        !.active_contexts = DictPut(C.active_contexts, request_id,
                                    NewContext(request_id, user_id, session_id, t)),
        !.total_requests = C.total_requests + 1]

\* metrics_collector.py:90-96
RecordLlmCallOp(C, request_id, tokens_in, tokens_out) ==
    IF DictHas(C.active_contexts, request_id)
    THEN LET context == DictGet(C.active_contexts, request_id)
         IN  [C EXCEPT !.active_contexts =
                 DictPut(C.active_contexts, request_id,
                         [context EXCEPT
                             !.llm_call_count = context.llm_call_count + 1,
                             !.llm_tokens_in = context.llm_tokens_in + tokens_in,
                             !.llm_tokens_out = context.llm_tokens_out + tokens_out])]
    ELSE C

\* record_tool_call with the aggregate updated outside the test of line 100
RecordToolCallOpUnguarded(C, request_id, tool_name) ==
    IF DictHas(C.active_contexts, request_id)
    THEN LET context == DictGet(C.active_contexts, request_id)
         IN  [C EXCEPT
                 !.active_contexts =
                     DictPut(C.active_contexts, request_id,
                             [context EXCEPT
                                 !.tool_calls = CounterInc(context.tool_calls, tool_name)]),
                 !.tool_usage = CounterInc(C.tool_usage, tool_name)]
    ELSE [C EXCEPT !.tool_usage = CounterInc(C.tool_usage, tool_name)]

\* metrics_collector.py:98-103
RecordToolCallOp(C, request_id, tool_name) ==
    IF DictHas(C.active_contexts, request_id)
    THEN LET context == DictGet(C.active_contexts, request_id)
         IN  [C EXCEPT
                 !.active_contexts =
                     DictPut(C.active_contexts, request_id,
                             [context EXCEPT
                                 !.tool_calls = CounterInc(context.tool_calls, tool_name)]),
                 !.tool_usage = CounterInc(C.tool_usage, tool_name)]
    ELSE C

\* record_agent_call that leaves the process-wide aggregate to completion
RecordAgentCallOpDeferred(C, request_id, agent_name) ==
    IF DictHas(C.active_contexts, request_id)
    THEN LET context == DictGet(C.active_contexts, request_id)
         IN  [C EXCEPT
                 !.active_contexts =
                     DictPut(C.active_contexts, request_id,
                             [context EXCEPT
                                 !.agent_calls = CounterInc(context.agent_calls, agent_name)])]
    ELSE C

\* metrics_collector.py:105-110
RecordAgentCallOp(C, request_id, agent_name) ==
    IF DictHas(C.active_contexts, request_id)
    THEN LET context == DictGet(C.active_contexts, request_id)
         IN  [C EXCEPT
                 !.active_contexts =
                     DictPut(C.active_contexts, request_id,
                             [context EXCEPT
                                 !.agent_calls = CounterInc(context.agent_calls, agent_name)]),
                 !.agent_usage = CounterInc(C.agent_usage, agent_name)]
    ELSE C

\* metrics_collector.py:112-117
RecordGuardrailBlockOp(C, request_id, reason) ==
    IF DictHas(C.active_contexts, request_id)
    THEN LET context == DictGet(C.active_contexts, request_id)
         IN  [C EXCEPT
                 !.active_contexts =
                     DictPut(C.active_contexts, request_id,
                             [context EXCEPT
                                 !.guardrail_blocks = context.guardrail_blocks + 1]),
                 !.guardrail_blocks = C.guardrail_blocks + 1]
    ELSE C

\* metrics_collector.py:119-123
RecordErrorOp(C, request_id, error_message) ==
    IF DictHas(C.active_contexts, request_id)
    THEN LET context == DictGet(C.active_contexts, request_id)
         IN  [C EXCEPT !.active_contexts =
                 DictPut(C.active_contexts, request_id,
                         [context EXCEPT
                             !.errors = Append(context.errors, error_message)])]
    ELSE C

\* complete_request reading the context with get instead of pop (line 140)
CompleteRequestOpNoPop(C, request_id, success, t) ==
    IF ~DictHas(C.active_contexts, request_id)
    THEN [C |-> C, ret |-> <<>>]
    ELSE LET popped == DictGet(C.active_contexts, request_id)
             context == [popped EXCEPT
                            !.end_time = Some(t),
                            !.latency_ms = Some(t - popped.start_time)]
             context_dict ==
                 [request_id |-> context.request_id,
                  user_id |-> context.user_id,
                  session_id |-> context.session_id,
                  timestamp |-> context.start_time,
                  latency_ms |-> context.latency_ms[1],
                  llm_call_count |-> context.llm_call_count,
                  llm_tokens_in |-> context.llm_tokens_in,
                  llm_tokens_out |-> context.llm_tokens_out,
                  tool_calls |-> context.tool_calls,
                  agent_calls |-> context.agent_calls,
                  guardrail_blocks |-> context.guardrail_blocks,
                  errors |-> context.errors,
                  success |-> success]
             appended == Append(C.historical_metrics, context_dict)
         IN  [C |-> [C EXCEPT
                        !.active_contexts = C.active_contexts,
                        !.successful_requests =
                            IF success THEN C.successful_requests + 1
                            ELSE C.successful_requests,
                        !.failed_requests =
                            IF success THEN C.failed_requests
                            ELSE C.failed_requests + 1,
                        !.total_latency_ms = C.total_latency_ms + context.latency_ms[1],
                        !.historical_metrics =
                            IF Len(appended) > MaxHistorical THEN Tail(appended)
                            ELSE appended],
              ret |-> <<context>>]

\* complete_request counting an unknown id as a failed request
CompleteRequestOpCountsUnknown(C, request_id, success, t) ==
    IF ~DictHas(C.active_contexts, request_id)
    THEN [C |-> [C EXCEPT !.failed_requests = C.failed_requests + 1],
          ret |-> <<>>]
    ELSE LET popped == DictGet(C.active_contexts, request_id)
             context == [popped EXCEPT
                            !.end_time = Some(t),
                            !.latency_ms = Some(t - popped.start_time)]
             context_dict ==
                 [request_id |-> context.request_id,
                  user_id |-> context.user_id,
                  session_id |-> context.session_id,
                  timestamp |-> context.start_time,
                  latency_ms |-> context.latency_ms[1],
                  llm_call_count |-> context.llm_call_count,
                  llm_tokens_in |-> context.llm_tokens_in,
                  llm_tokens_out |-> context.llm_tokens_out,
                  tool_calls |-> context.tool_calls,
                  agent_calls |-> context.agent_calls,
                  guardrail_blocks |-> context.guardrail_blocks,
                  errors |-> context.errors,
                  success |-> success]
             appended == Append(C.historical_metrics, context_dict)
         IN  [C |-> [C EXCEPT
                        !.active_contexts = DictPop(C.active_contexts, request_id),
                        !.successful_requests =
                            IF success THEN C.successful_requests + 1
                            ELSE C.successful_requests,
                        !.failed_requests =
                            IF success THEN C.failed_requests
                            ELSE C.failed_requests + 1,
                        !.total_latency_ms = C.total_latency_ms + context.latency_ms[1],
                        !.historical_metrics =
                            IF Len(appended) > MaxHistorical THEN Tail(appended)
                            ELSE appended],
              ret |-> <<context>>]

\* complete_request with pop() for pop(0) at line 171
CompleteRequestOpDropsNewest(C, request_id, success, t) ==
    IF ~DictHas(C.active_contexts, request_id)
    THEN [C |-> C, ret |-> <<>>]
    ELSE LET popped == DictGet(C.active_contexts, request_id)
             context == [popped EXCEPT
                            !.end_time = Some(t),
                            !.latency_ms = Some(t - popped.start_time)]
             context_dict ==
                 [request_id |-> context.request_id,
                  user_id |-> context.user_id,
                  session_id |-> context.session_id,
                  timestamp |-> context.start_time,
                  latency_ms |-> context.latency_ms[1],
                  llm_call_count |-> context.llm_call_count,
                  llm_tokens_in |-> context.llm_tokens_in,
                  llm_tokens_out |-> context.llm_tokens_out,
                  tool_calls |-> context.tool_calls,
                  agent_calls |-> context.agent_calls,
                  guardrail_blocks |-> context.guardrail_blocks,
                  errors |-> context.errors,
                  success |-> success]
             appended == Append(C.historical_metrics, context_dict)
         IN  [C |-> [C EXCEPT
                        !.active_contexts = DictPop(C.active_contexts, request_id),
                        !.successful_requests =
                            IF success THEN C.successful_requests + 1
                            ELSE C.successful_requests,
                        !.failed_requests =
                            IF success THEN C.failed_requests
                            ELSE C.failed_requests + 1,
                        !.total_latency_ms = C.total_latency_ms + context.latency_ms[1],
                        !.historical_metrics =
                            IF Len(appended) > MaxHistorical
                            THEN SubSeq(appended, 1, Len(appended) - 1)
                            ELSE appended],
              ret |-> <<context>>]

\* metrics_collector.py:125-173.  Returns [C, ret]; ret: <<>> (None) or
\* <<the completed context>>.
CompleteRequestOp(C, request_id, success, t) ==
    IF ~DictHas(C.active_contexts, request_id)
    THEN [C |-> C, ret |-> <<>>]
    ELSE LET popped == DictGet(C.active_contexts, request_id)
             context == [popped EXCEPT
                            !.end_time = Some(t),
                            !.latency_ms = Some(t - popped.start_time)]
             context_dict ==
                 [request_id |-> context.request_id,
                  user_id |-> context.user_id,
                  session_id |-> context.session_id,
                  timestamp |-> context.start_time,
                  latency_ms |-> context.latency_ms[1],
                  llm_call_count |-> context.llm_call_count,
                  llm_tokens_in |-> context.llm_tokens_in,
                  llm_tokens_out |-> context.llm_tokens_out,
                  tool_calls |-> context.tool_calls,
                  agent_calls |-> context.agent_calls,
                  guardrail_blocks |-> context.guardrail_blocks,
                  errors |-> context.errors,
                  success |-> success]
             appended == Append(C.historical_metrics, context_dict)
         IN  [C |-> [C EXCEPT
                        !.active_contexts = DictPop(C.active_contexts, request_id),
                        !.successful_requests =
                            IF success THEN C.successful_requests + 1
                            ELSE C.successful_requests,
                        !.failed_requests =
                            IF success THEN C.failed_requests
                            ELSE C.failed_requests + 1,
                        !.total_latency_ms = C.total_latency_ms + context.latency_ms[1],
                        !.historical_metrics =
                            IF Len(appended) > MaxHistorical THEN Tail(appended)
                            ELSE appended],
              ret |-> <<context>>]

\* Counter.most_common(n): by count, largest first, ties in insertion order
RECURSIVE MostCommon(_, _)
MostCommon(counter, n) ==
    IF n = 0 \/ counter = <<>> THEN <<>>
    ELSE LET best == CHOOSE i \in DOMAIN counter :
                        /\ \A j \in DOMAIN counter : counter[j].val <= counter[i].val
                        /\ \A j \in 1..(i-1) : counter[j].val < counter[i].val
         IN  <<counter[best]>> \o MostCommon(DictPop(counter, counter[best].key), n - 1)

\* get_current_metrics deriving the active requests from the counters
GetCurrentMetricsByCounters(C) ==
    [total_requests |-> C.total_requests,
     successful_requests |-> C.successful_requests,
     failed_requests |-> C.failed_requests,
     success_rate |-> <<C.successful_requests, Max(1, C.total_requests)>>,
     average_latency_ms |-> IF C.total_requests > 0
                            THEN <<C.total_latency_ms, C.total_requests>>
                            ELSE <<0, 1>>,
     top_tools |-> MostCommon(C.tool_usage, 5),
     top_agents |-> MostCommon(C.agent_usage, 5),
     guardrail_blocks |-> C.guardrail_blocks,
     active_requests |-> C.total_requests - C.successful_requests
                            - C.failed_requests]

\* metrics_collector.py:175-196.  A quotient is <<numerator, denominator>>.
GetCurrentMetrics(C) ==
    [total_requests |-> C.total_requests,
     successful_requests |-> C.successful_requests,
     failed_requests |-> C.failed_requests,
     success_rate |-> <<C.successful_requests, Max(1, C.total_requests)>>,
     average_latency_ms |-> IF C.total_requests > 0
                            THEN <<C.total_latency_ms, C.total_requests>>
                            ELSE <<0, 1>>,
     top_tools |-> MostCommon(C.tool_usage, 5),
     top_agents |-> MostCommon(C.agent_usage, 5),
     guardrail_blocks |-> C.guardrail_blocks,
     active_requests |-> Len(C.active_contexts)]


(***************************************************************************)
(* AlertSystem: the monitor thread's detectors and sweep.                  *)
(***************************************************************************)
\* alerts.py:270  f"{category}_ms"
ThresholdKey(category) ==
    CASE category = "api_request" -> "api_request_ms"
      [] category = "llm_call" -> "llm_call_ms"
      [] category = "tool_execution" -> "tool_execution_ms"
      [] category = "database_query" -> "database_query_ms"

\* alerts.py:279
PerformanceAlertKey(category, t) ==
    <<S("performance"), S(category), DayStamp(t), HourStamp(t)>>
\* alerts.py:306
ErrorRateAlertKey(t) == <<S("error_rate"), DayStamp(t), HourStamp(t)>>

\* f"{rate:.2%}": the quotient in hundredths of a percent, rounded
RatePercent(q) == (2 * 10000 * q[1] + q[2]) \div (2 * q[2])

\* The monitor's view of the alert structures: A = [active, resolved, files,
\* triggered, swept]; triggered and swept list the ids one cycle triggered
\* and resolved.
AfterTrigger(A, r) ==
    [active |-> r.active, resolved |-> r.resolved, files |-> r.files,
     triggered |-> Append(A.triggered, r.ret), swept |-> A.swept]
AfterResolve(A, alert_id, r) ==
    [active |-> r.active, resolved |-> r.resolved, files |-> r.files,
     triggered |-> A.triggered,
     swept |-> IF r.ret THEN Append(A.swept, alert_id) ELSE A.swept]

\* one category of the loop, alerting on a p95 at the threshold as well
CheckPerformanceCategoryInclusive(A, handlers, thr, category, metrics, t, io_ok, raisers) ==
    LET threshold_key == ThresholdKey(category)
        configured == /\ "performance" \in DOMAIN thr
                      /\ threshold_key \in DOMAIN thr["performance"]
        threshold_ms == thr["performance"][threshold_key]
        p95_ms == metrics.p95_ms
        exceeded == /\ configured
                    /\ p95_ms # NoValue /\ p95_ms[1] # 0
                    /\ p95_ms[1] >= threshold_ms
        alert_key == PerformanceAlertKey(category, t)
    IN  IF exceeded /\ ~DictHas(A.active, alert_key)
        THEN AfterTrigger(A,
                 TriggerAlertOp(A, handlers, "performance", "warning",
                                <<"Performance degradation", category,
                                  p95_ms[1], threshold_ms>>,
                                [category |-> category, p95_ms |-> p95_ms[1],
                                 threshold_ms |-> threshold_ms, metrics |-> metrics],
                                t, io_ok, raisers))
        ELSE A

\* alerts.py:269-293: one category of the loop
CheckPerformanceCategory(A, handlers, thr, category, metrics, t, io_ok, raisers) ==
    LET threshold_key == ThresholdKey(category)
        configured == /\ "performance" \in DOMAIN thr
                      /\ threshold_key \in DOMAIN thr["performance"]
        threshold_ms == thr["performance"][threshold_key]
        p95_ms == metrics.p95_ms
        exceeded == /\ configured
                    /\ p95_ms # NoValue /\ p95_ms[1] # 0
                    /\ p95_ms[1] > threshold_ms
        alert_key == PerformanceAlertKey(category, t)
    IN  IF exceeded /\ ~DictHas(A.active, alert_key)
        THEN AfterTrigger(A,
                 TriggerAlertOp(A, handlers, "performance", "warning",
                                <<"Performance degradation", category,
                                  p95_ms[1], threshold_ms>>,
                                [category |-> category, p95_ms |-> p95_ms[1],
                                 threshold_ms |-> threshold_ms, metrics |-> metrics],
                                t, io_ok, raisers))
        ELSE A

\* alerts.py:265-293.  `pm`: the dict get_performance_metrics() returned.
RECURSIVE CheckPerformanceAlerts(_, _, _, _, _, _, _)
CheckPerformanceAlerts(A, handlers, thr, pm, t, io_ok, raisers) ==
    IF pm = <<>> THEN A
    ELSE CheckPerformanceAlerts(
             CheckPerformanceCategory(A, handlers, thr, pm[1].key, pm[1].val,
                                      t, io_ok, raisers),
             handlers, thr, Tail(pm), t, io_ok, raisers)

\* _check_error_rate_alerts without the minimum of requests of line 304
CheckErrorRateAlertsAnySample(A, handlers, thr, cm, t, io_ok, raisers) ==
    IF "error_rate" \notin DOMAIN thr THEN A
    ELSE
      LET max_rate == IF "max_error_rate" \in DOMAIN thr["error_rate"]
                      THEN thr["error_rate"]["max_error_rate"] ELSE <<5, 100>>
          error_rate == <<cm.failed_requests, Max(1, cm.total_requests)>>
          exceeded == error_rate[1] * max_rate[2] > max_rate[1] * error_rate[2]
          alert_key == ErrorRateAlertKey(t)
      IN  IF exceeded /\ ~DictHas(A.active, alert_key)
          THEN AfterTrigger(A,
                   TriggerAlertOp(A, handlers, "error_rate", "error",
                                  <<"High error rate", "",
                                    RatePercent(error_rate), RatePercent(max_rate)>>,
                                  [error_rate |-> error_rate, threshold |-> max_rate,
                                   failed_requests |-> cm.failed_requests,
                                   total_requests |-> cm.total_requests],
                                  t, io_ok, raisers))
          ELSE A

\* alerts.py:295-319.  `cm`: the dict get_current_metrics() returned.
CheckErrorRateAlerts(A, handlers, thr, cm, t, io_ok, raisers) ==
    IF "error_rate" \notin DOMAIN thr THEN A
    ELSE
      LET max_rate == IF "max_error_rate" \in DOMAIN thr["error_rate"]
                      THEN thr["error_rate"]["max_error_rate"] ELSE <<5, 100>>
          error_rate == <<cm.failed_requests, Max(1, cm.total_requests)>>
          exceeded == /\ error_rate[1] * max_rate[2] > max_rate[1] * error_rate[2]
                      /\ cm.total_requests >= MinErrorRateRequests
          alert_key == ErrorRateAlertKey(t)
      IN  IF exceeded /\ ~DictHas(A.active, alert_key)
          THEN AfterTrigger(A,
                   TriggerAlertOp(A, handlers, "error_rate", "error",
                                  <<"High error rate", "",
                                    RatePercent(error_rate), RatePercent(max_rate)>>,
                                  [error_rate |-> error_rate, threshold |-> max_rate,
                                   failed_requests |-> cm.failed_requests,
                                   total_requests |-> cm.total_requests],
                                  t, io_ok, raisers))
          ELSE A

\* one alert of the loop, resolved at the recorded threshold as well
AutoResolveAlertInclusive(A, alert_id, alert, pm, t, io_ok) ==
    LET has_category == /\ alert.type = "performance"
                        /\ "category" \in DOMAIN alert.details
        category == alert.details.category
        in_metrics == has_category /\ DictHas(pm, category)
        p95_ms == DictGet(pm, category).p95_ms
        has_threshold == /\ "threshold_ms" \in DOMAIN alert.details
                         /\ alert.details.threshold_ms # 0
        threshold_ms == alert.details.threshold_ms
        recovered == /\ in_metrics
                     /\ p95_ms # NoValue /\ p95_ms[1] # 0
                     /\ has_threshold
                     /\ p95_ms[1] <= threshold_ms
    IN  IF recovered
        THEN AfterResolve(A, alert_id,
                 ResolveAlertOp(A, alert_id,
                                <<"Performance recovered", category,
                                  p95_ms[1], threshold_ms>>, t, io_ok))
        ELSE A

\* alerts.py:342-356: one alert of the loop
AutoResolveAlert(A, alert_id, alert, pm, t, io_ok) ==
    LET has_category == /\ alert.type = "performance"
                        /\ "category" \in DOMAIN alert.details
        category == alert.details.category
        in_metrics == has_category /\ DictHas(pm, category)
        p95_ms == DictGet(pm, category).p95_ms
        has_threshold == /\ "threshold_ms" \in DOMAIN alert.details
                         /\ alert.details.threshold_ms # 0
        threshold_ms == alert.details.threshold_ms
        recovered == /\ in_metrics
                     /\ p95_ms # NoValue /\ p95_ms[1] # 0
                     /\ has_threshold
                     /\ p95_ms[1] < threshold_ms
    IN  IF recovered
        THEN AfterResolve(A, alert_id,
                 ResolveAlertOp(A, alert_id,
                                <<"Performance recovered", category,
                                  p95_ms[1], threshold_ms>>, t, io_ok))
        ELSE A

\* alerts.py:339-356.  `snapshot`: list(self.active_alerts.items()), what is
\* left of it.
RECURSIVE AutoResolveAlerts(_, _, _, _, _)
AutoResolveAlerts(A, snapshot, pm, t, io_ok) ==
    IF snapshot = <<>> THEN A
    ELSE AutoResolveAlerts(
             AutoResolveAlert(A, snapshot[1].key, snapshot[1].val, pm, t, io_ok),
             Tail(snapshot), pm, t, io_ok)

\* the sweep, from the snapshot of the active alerts it starts with
AutoResolveSweep(A, pm, t, io_ok) == AutoResolveAlerts(A, A.active, pm, t, io_ok)

\* alerts.py:324-330: the body of one monitor cycle
MonitorCycleOp(A, handlers, thr, pm, cm, t, io_ok, raisers) ==
    AutoResolveSweep(
        CheckErrorRateAlerts(
            CheckPerformanceAlerts(A, handlers, thr, pm, t, io_ok, raisers),
            handlers, thr, cm, t, io_ok, raisers),
        pm, t, io_ok)

(***************************************************************************)
(* The state, as records for the operators above, and its initial value.   *)
(***************************************************************************)
AlertState == [active |-> active_alerts, resolved |-> resolved_alerts,
               files |-> alert_files]
TrackerState == [traces |-> traces, historical_data |-> historical_data]
CollectorState ==
    [active_contexts |-> active_contexts,
     historical_metrics |-> historical_metrics,
     total_requests |-> total_requests,
     successful_requests |-> successful_requests,
     failed_requests |-> failed_requests,
     total_latency_ms |-> total_latency_ms,
     tool_usage |-> tool_usage,
     agent_usage |-> agent_usage,
     guardrail_blocks |-> guardrail_blocks]

SetCollector(C) ==
    /\ active_contexts' = C.active_contexts
    /\ historical_metrics' = C.historical_metrics
    /\ total_requests' = C.total_requests
    /\ successful_requests' = C.successful_requests
    /\ failed_requests' = C.failed_requests
    /\ total_latency_ms' = C.total_latency_ms
    /\ tool_usage' = C.tool_usage
    /\ agent_usage' = C.agent_usage
    /\ guardrail_blocks' = C.guardrail_blocks

\* alerts.py:241-249: the two default handlers, registered for every type
DefaultHandlers == <<"_log_alert_handler", "_email_critical_alert_handler">>

\* alerts.py:39-90
InitAlertSystem ==
    /\ active_alerts = <<>>
    /\ resolved_alerts = <<>>
    /\ alert_handlers = [ty \in SeqRange(AlertType) |-> DefaultHandlers]
    /\ thresholds =
         [performance |-> [api_request_ms |-> 2000, llm_call_ms |-> 5000,
                           tool_execution_ms |-> 1000],
          error_rate |-> [max_error_rate |-> <<5, 100>>, window_size |-> 100],
          guardrail |-> [max_block_rate |-> <<10, 100>>],
          usage |-> [max_requests_per_minute |-> 100,
                     max_tokens_per_minute |-> 10000]]
    /\ alert_files = <<>>
    /\ monitor_wake = 0

\* performance_tracker.py:59-62
DefaultTrackerThresholds ==
    [api_request |-> 1000, llm_call |-> 2000, tool_execution |-> 500,
     database_query |-> 100]

\* performance_tracker.py:37-64
InitTracker ==
    /\ traces = <<>>
    /\ historical_data = <<>>
    /\ tracker_thresholds = DefaultTrackerThresholds

\* metrics_collector.py:43-71
InitCollector ==
    /\ active_contexts = <<>>
    /\ historical_metrics = <<>>
    /\ total_requests = 0
    /\ successful_requests = 0
    /\ failed_requests = 0
    /\ total_latency_ms = 0
    /\ tool_usage = <<>>
    /\ agent_usage = <<>>
    /\ guardrail_blocks = 0

Init ==
    /\ now = 0
    /\ InitAlertSystem
    /\ InitTracker
    /\ InitCollector
    /\ threads = <<>>
    /\ lastOp = [op |-> "init"]

(***************************************************************************)
(* Inputs.                                                                 *)
(***************************************************************************)
ManualTypes == {"system", "performance"}
ManualMessages == {<<"m1">>, <<"m2">>}
ManualDetails == [test_key |-> "test_value"]
ResolutionMessages == {<<"fixed">>}
UserHandlers == {"hA", "hB"}
Categories == {"api_request", "database_query"}
SlowMs == 3000
FastMs == 50

\* the ids resolve_alert is called with: every id the system has issued and
\* one it may not have
KnownAlertIds ==
    DictKeys(active_alerts)
      \cup {resolved_alerts[i].id : i \in DOMAIN resolved_alerts}
      \cup {AlertId("system", 0, <<"m1">>)}

(***************************************************************************)
(* AlertSystem calls.                                                      *)
(***************************************************************************)
TriggerAlert(alert_type, severity, message, io_ok, raisers) ==
    /\ Len(active_alerts) + Len(resolved_alerts) < MaxAlerts
    /\ LET r == TriggerAlertOp(AlertState, alert_handlers, alert_type, severity,
                               message, ManualDetails, now, io_ok, raisers)
       IN  /\ active_alerts' = r.active
           /\ resolved_alerts' = r.resolved
           /\ alert_files' = r.files
           /\ lastOp' = [op |-> "trigger_alert", alert_type |-> alert_type,
                         calls |-> r.calls, ret |-> r.ret]
    /\ UNCHANGED <<threads, now, alert_handlers, thresholds, monitor_wake,
                   trackerVars, collectorVars>>

ResolveAlert(alert_id, resolution_message, io_ok) ==
    /\ LET r == ResolveAlertOp(AlertState, alert_id, resolution_message, now, io_ok)
       IN  /\ active_alerts' = r.active
           /\ resolved_alerts' = r.resolved
           /\ alert_files' = r.files
           /\ lastOp' = [op |-> "resolve_alert", alert_id |-> alert_id,
                         resolution_message |-> resolution_message,
                         ret |-> r.ret]
    /\ UNCHANGED <<threads, now, alert_handlers, thresholds, monitor_wake,
                   trackerVars, collectorVars>>

GetActiveAlertsCall(alert_type, min_severity) ==
    /\ lastOp' = [op |-> "get_active_alerts", alert_type |-> alert_type,
                  min_severity |-> min_severity,
                  ret |-> GetActiveAlerts(active_alerts, alert_type, min_severity)]
    /\ UNCHANGED <<threads, now, alertVars, trackerVars, collectorVars>>

\* alerts.py:92-101
RegisterHandler(alert_type, handler) ==
    /\ Len(alert_handlers[alert_type]) < Len(DefaultHandlers) + MaxUserHandlers
    /\ alert_handlers' = [alert_handlers EXCEPT ![alert_type] = Append(@, handler)]
    /\ lastOp' = [op |-> "register_handler"]
    /\ UNCHANGED <<threads, now, active_alerts, resolved_alerts, thresholds, alert_files,
                   monitor_wake, trackerVars, collectorVars>>

\* alerts.py:103-116
SetThresholdOp(thr, alert_type, key, value) ==
    LET old == IF alert_type \in DOMAIN thr THEN thr[alert_type] ELSE <<>>
    IN  (alert_type :> ((key :> value) @@ old)) @@ thr

SetThreshold(alert_type, key, value) ==
    /\ thresholds' = SetThresholdOp(thresholds, alert_type, key, value)
    /\ lastOp' = [op |-> "set_threshold"]
    /\ UNCHANGED <<threads, now, active_alerts, resolved_alerts, alert_handlers,
                   alert_files, monitor_wake, trackerVars, collectorVars>>

\* alerts.py:321-337: one cycle of the monitor thread, run when its sleep
\* has ended: the two detectors, the sweep, sleep(60)
MonitorCycleDone(A) ==
    /\ active_alerts' = A.active
    /\ resolved_alerts' = A.resolved
    /\ alert_files' = A.files
    /\ lastOp' = [op |-> "monitor_cycle", triggered |-> A.triggered,
                  swept |-> A.swept]

MonitorCycle(io_ok, raisers) ==
    /\ now >= monitor_wake
    /\ MonitorCycleDone(
           MonitorCycleOp([active |-> active_alerts, resolved |-> resolved_alerts,
                           files |-> alert_files, triggered |-> <<>>,
                           swept |-> <<>>],
                          alert_handlers, thresholds,
                          GetPerformanceMetrics(historical_data, tracker_thresholds),
                          GetCurrentMetrics(CollectorState),
                          now, io_ok, raisers))
    /\ monitor_wake' = now + MonitorSleepMs
    /\ UNCHANGED <<threads, now, alert_handlers, thresholds, trackerVars, collectorVars>>

(***************************************************************************)
(* The clock and the load the monitor observes.                            *)
(***************************************************************************)
MinuteOfHour(t) == (t % 3600000) \div 60000

TickMinute ==
    /\ MinuteOfHour(now) < MaxMinutes
    /\ now' = now + 60000
    /\ lastOp' = [op |-> "tick"]
    /\ UNCHANGED <<threads, alertVars, trackerVars, collectorVars>>

\* one traced operation: start_trace, it takes `duration` ms, end_trace
EndStarted(started, thr, success, t) ==
    EndTraceOp(started, thr, started.ret, success, t)
TraceOnce(T, thr, category, duration, t) ==
    EndStarted(StartTraceOp(T, "op", category, None, None, t), thr, TRUE,
               t + duration)

\* n operations of one category traced one after the other, one every
\* `period` ms.  The run stops if end_trace does not know the trace.
RECURSIVE TraceRun(_, _, _, _, _, _, _)
TraceRunOn(T, ended, thr, category, duration, period, t, n) ==
    IF ended.ret = <<>> THEN T
    ELSE TraceRun([traces |-> ended.traces,
                   historical_data |-> ended.historical_data],
                  thr, category, duration, period, t + period, n - 1)
TraceRun(T, thr, category, duration, period, t, n) ==
    IF n = 0 THEN T
    ELSE TraceRunOn(T, TraceOnce(T, thr, category, duration, t),
                    thr, category, duration, period, t, n)

TraceBatchDone(T) ==
    /\ traces' = T.traces
    /\ historical_data' = T.historical_data

\* a minute of traffic in one category: MinP95Samples operations
TraceBatch(category, duration) ==
    /\ MinuteOfHour(now) < MaxMinutes
    /\ TraceBatchDone(TraceRun(TrackerState, tracker_thresholds, category,
                               duration, 60000 \div MinP95Samples, now,
                               MinP95Samples))
    /\ now' = now + 60000
    /\ lastOp' = [op |-> "trace_batch"]
    /\ UNCHANGED <<threads, alertVars, tracker_thresholds, collectorVars>>

\* one request served: start_request, complete_request
CompleteStarted(started, request_id, success, t) ==
    CompleteRequestOp(started, request_id, success, t)
RequestOnce(C, success, t) ==
    CompleteStarted(StartRequestOp(C, "r1", "u1", "s1", t), "r1", success, t)

\* n requests served one after the other.  The run stops if
\* complete_request does not know the request.
RECURSIVE RequestRun(_, _, _, _)
RequestRunOn(C, completed, success, t, n) ==
    IF completed.ret = <<>> THEN C
    ELSE RequestRun(completed.C, success, t, n - 1)
RequestRun(C, success, t, n) ==
    IF n = 0 THEN C
    ELSE RequestRunOn(C, RequestOnce(C, success, t), success, t, n)

RequestBatch(success) ==
    /\ total_requests < MinErrorRateRequests * MaxRequestBatches
    /\ SetCollector(RequestRun(CollectorState, success, now, MinErrorRateRequests))
    /\ lastOp' = [op |-> "request_batch"]
    /\ UNCHANGED <<threads, now, alertVars, trackerVars>>

\* n requests served with one outcome
ServedSizes == {1, MinErrorRateRequests - 1}
RequestsServed(n, success) ==
    /\ total_requests + n <= MaxServed
    /\ SetCollector(RequestRun(CollectorState, success, now, n))
    /\ lastOp' = [op |-> "requests_served"]
    /\ UNCHANGED <<threads, now, alertVars, trackerVars>>

(***************************************************************************)
(* MetricsCollector calls.                                                 *)
(***************************************************************************)
RequestIds == {"r1", "r2"}
ToolNames == {"get_balance"}
AgentNames == {"balance_agent"}

\* the record_* calls a context has taken
RECURSIVE CounterTotal(_)
CounterTotal(counter) ==
    IF counter = <<>> THEN 0 ELSE counter[1].val + CounterTotal(Tail(counter))
Recorded(context) ==
    context.llm_call_count + CounterTotal(context.tool_calls)
      + CounterTotal(context.agent_calls) + context.guardrail_blocks
      + Len(context.errors)
\* the record_* calls the active contexts and the history hold
RECURSIVE RecordedIn(_)
RecordedIn(records) ==
    IF records = <<>> THEN 0
    ELSE Recorded(records[1]) + RecordedIn(Tail(records))
\* a record_* call is taken for an id with no context (the call is a no-op)
\* and while the collector has room
MayRecord(request_id) ==
    DictHas(active_contexts, request_id)
        => RecordedIn(DictValues(active_contexts)) + RecordedIn(historical_metrics)
              < MaxRecords

StartRequest(request_id) ==
    /\ total_requests < MaxRequests
    /\ SetCollector(StartRequestOp(CollectorState, request_id, "u1", "s1", now))
    /\ lastOp' = [op |-> "start_request", request_id |-> request_id,
                  ret |-> request_id]
    /\ UNCHANGED <<threads, now, alertVars, trackerVars>>

RecordLlmCall(request_id, tokens_in, tokens_out) ==
    /\ MayRecord(request_id)
    /\ SetCollector(RecordLlmCallOp(CollectorState, request_id, tokens_in, tokens_out))
    /\ lastOp' = [op |-> "record_llm_call", request_id |-> request_id]
    /\ UNCHANGED <<threads, now, alertVars, trackerVars>>

RecordToolCall(request_id, tool_name) ==
    /\ MayRecord(request_id)
    /\ SetCollector(RecordToolCallOp(CollectorState, request_id, tool_name))
    /\ lastOp' = [op |-> "record_tool_call", request_id |-> request_id,
                  name |-> tool_name]
    /\ UNCHANGED <<threads, now, alertVars, trackerVars>>

RecordAgentCall(request_id, agent_name) ==
    /\ MayRecord(request_id)
    /\ SetCollector(RecordAgentCallOp(CollectorState, request_id, agent_name))
    /\ lastOp' = [op |-> "record_agent_call", request_id |-> request_id,
                  name |-> agent_name]
    /\ UNCHANGED <<threads, now, alertVars, trackerVars>>

RecordGuardrailBlock(request_id, reason) ==
    /\ MayRecord(request_id)
    /\ SetCollector(RecordGuardrailBlockOp(CollectorState, request_id, reason))
    /\ lastOp' = [op |-> "record_guardrail_block", request_id |-> request_id]
    /\ UNCHANGED <<threads, now, alertVars, trackerVars>>

RecordError(request_id, error_message) ==
    /\ MayRecord(request_id)
    /\ SetCollector(RecordErrorOp(CollectorState, request_id, error_message))
    /\ lastOp' = [op |-> "record_error", request_id |-> request_id]
    /\ UNCHANGED <<threads, now, alertVars, trackerVars>>

CompleteRequestDone(request_id, success, r) ==
    /\ SetCollector(r.C)
    /\ lastOp' = [op |-> "complete_request", request_id |-> request_id,
                  success |-> success, ret |-> r.ret]

CompleteRequest(request_id, success) ==
    /\ CompleteRequestDone(request_id, success,
           CompleteRequestOp(CollectorState, request_id, success, now))
    /\ UNCHANGED <<threads, now, alertVars, trackerVars>>

GetCurrentMetricsCall ==
    /\ lastOp' = [op |-> "get_current_metrics",
                  ret |-> GetCurrentMetrics(CollectorState)]
    /\ UNCHANGED <<threads, now, alertVars, trackerVars, collectorVars>>

(***************************************************************************)
(* PerformanceTracker calls.                                               *)
(***************************************************************************)
TraceNames == {"op"}
TraceCategories == {"api", "database_query"}
RecordedSpans == Sum([i \in DOMAIN historical_data |-> Len(historical_data[i].val)])

\* the ids end_trace is called with: the open ones, the ones of the
\* recorded spans and one that may never have been issued
KnownTraceIds ==
    DictKeys(traces)
      \cup UNION {{TraceId(historical_data[i].val[k].name,
                           historical_data[i].val[k].start_time) :
                        k \in DOMAIN historical_data[i].val} :
                   i \in DOMAIN historical_data}
      \cup {TraceId("op", 0)}

\* the callers' clock, in steps of TickMs
TickClock ==
    /\ now < MaxTicks * TickMs
    /\ now' = now + TickMs
    /\ lastOp' = [op |-> "tick"]
    /\ UNCHANGED <<threads, alertVars, trackerVars, collectorVars>>

StartTraceDone(r, name, category) ==
    /\ traces' = r.traces
    /\ historical_data' = r.historical_data
    /\ lastOp' = [op |-> "start_trace", name |-> name, category |-> category,
                  ret |-> r.ret]

StartTrace(name, category) ==
    /\ Len(traces) + RecordedSpans < MaxTraces
    /\ StartTraceDone(StartTraceOp(TrackerState, name, category, None, None, now),
                      name, category)
    /\ UNCHANGED <<threads, now, alertVars, tracker_thresholds, collectorVars>>

EndTraceDone(r, trace_id, success) ==
    /\ traces' = r.traces
    /\ historical_data' = r.historical_data
    /\ lastOp' = [op |-> "end_trace", trace_id |-> trace_id, success |-> success,
                  ret |-> r.ret, warned |-> r.warned]

EndTrace(trace_id, success) ==
    /\ EndTraceDone(EndTraceOp(TrackerState, tracker_thresholds, trace_id,
                               success, now),
                    trace_id, success)
    /\ UNCHANGED <<threads, now, alertVars, tracker_thresholds, collectorVars>>

\* performance_tracker.py:136-139
SetTrackerThreshold(category, threshold_ms) ==
    /\ tracker_thresholds' = (category :> threshold_ms) @@ tracker_thresholds
    /\ lastOp' = [op |-> "set_tracker_threshold"]
    /\ UNCHANGED <<threads, now, alertVars, traces, historical_data, collectorVars>>

GetPerformanceMetricsCall ==
    /\ lastOp' = [op |-> "get_performance_metrics",
                  ret |-> GetPerformanceMetrics(historical_data, tracker_thresholds)]
    /\ UNCHANGED <<threads, now, alertVars, trackerVars, collectorVars>>

\* the operations of `durations`, traced one after the other, one every
\* `period` ms.  The run stops if end_trace does not know the trace.
RECURSIVE TraceEach(_, _, _, _, _, _)
TraceEachOn(T, ended, thr, category, durations, period, t) ==
    IF ended.ret = <<>> THEN T
    ELSE TraceEach([traces |-> ended.traces,
                    historical_data |-> ended.historical_data],
                   thr, category, Tail(durations), period, t + period)
TraceEach(T, thr, category, durations, period, t) ==
    IF durations = <<>> THEN T
    ELSE TraceEachOn(T, TraceOnce(T, thr, category, Head(durations), t),
                     thr, category, durations, period, t)

\* n durations: 1..n ms rotated by k, ascending or descending
SampleDurations(n, k, descending) ==
    [i \in 1..n |->
        LET v == ((i - 1 + k) % n) + 1
        IN  IF descending THEN n + 1 - v ELSE v]

\* the tracker after n operations of one category, one a second
InitTraced ==
    \E n \in 0..MaxSamples, k \in 0..MaxShift, descending \in BOOLEAN :
        LET T == TraceEach([traces |-> <<>>, historical_data |-> <<>>],
                           DefaultTrackerThresholds, "api_request",
                           SampleDurations(n, k, descending), 1000, 0)
        IN  /\ traces = T.traces
            /\ historical_data = T.historical_data
            /\ tracker_thresholds = DefaultTrackerThresholds
            /\ now = 1000 * n

(***************************************************************************)
(* Specifications.  Each drives one part of the pipeline.                  *)
(***************************************************************************)
\* the handlers of a type that may raise: the registered user handlers
Raisers(alert_type) == SUBSET (SeqRange(alert_handlers[alert_type]) \cap UserHandlers)

\* the alert API: trigger, resolve, handler registration, over a few minutes
NextAlerts ==
    \/ \E m \in ManualMessages, io_ok \in BOOLEAN :
            TriggerAlert("system", "critical", m, io_ok, {})
    \/ \E id \in KnownAlertIds, m \in ResolutionMessages, io_ok \in BOOLEAN :
            ResolveAlert(id, m, io_ok)
    \/ TickMinute

SpecAlerts == Init /\ [][NextAlerts]_vars

\* the queries over the active set
NextQuery ==
    \/ \E ty \in ManualTypes, sev \in SeqRange(AlertSeverity), m \in ManualMessages :
            TriggerAlert(ty, sev, m, TRUE, {})
    \/ \E ty \in ManualTypes \cup {None},
          sev \in SeqRange(AlertSeverity) \cup {None} :
            GetActiveAlertsCall(ty, sev)

SpecQuery == Init /\ [][NextQuery]_vars

\* the monitor thread, the load it observes and the calls that race with it
NextMonitor ==
    \/ MonitorCycle(TRUE, {})
    \/ TickMinute
    \/ \E d \in {SlowMs, FastMs} : TraceBatch("api_request", d)
    \/ TraceBatch("database_query", SlowMs)
    \/ \E ok \in BOOLEAN : RequestBatch(ok)

SpecMonitor == Init /\ [][NextMonitor]_vars

\* handler registration and dispatch
NextHandlers ==
    \/ \E ty \in ManualTypes, m \in ManualMessages :
         \E raisers \in Raisers(ty) :
            TriggerAlert(ty, "critical", m, TRUE, raisers)
    \/ \E h \in UserHandlers : RegisterHandler("system", h)

SpecHandlers == Init /\ [][NextHandlers]_vars

\* the collector API
NextMetrics ==
    \/ \E id \in RequestIds : StartRequest(id)
    \/ \E id \in RequestIds : RecordLlmCall(id, 100, 200)
    \/ \E id \in RequestIds, tool \in ToolNames : RecordToolCall(id, tool)
    \/ \E id \in RequestIds, agent \in AgentNames : RecordAgentCall(id, agent)
    \/ \E id \in RequestIds : RecordGuardrailBlock(id, "blocked")
    \/ \E id \in RequestIds : RecordError(id, "failed")
    \/ \E id \in RequestIds, ok \in BOOLEAN : CompleteRequest(id, ok)
    \/ GetCurrentMetricsCall

SpecMetrics == Init /\ [][NextMetrics]_vars

\* the tracker API
NextTracker ==
    \/ \E name \in TraceNames, category \in TraceCategories :
            StartTrace(name, category)
    \/ \E id \in KnownTraceIds, ok \in BOOLEAN : EndTrace(id, ok)
    \/ SetTrackerThreshold("api", TickMs)
    \/ GetPerformanceMetricsCall
    \/ TickClock

SpecTracker == Init /\ [][NextTracker]_vars

\* the latency statistics, read after a run of traced operations
InitP95 ==
    /\ InitTraced
    /\ InitAlertSystem
    /\ InitCollector
    /\ threads = <<>>
    /\ lastOp = [op |-> "init"]

NextP95 == GetPerformanceMetricsCall

SpecP95 == InitP95 /\ [][NextP95]_vars

\* the monitor thread over the collector's counters
NextErrorRate ==
    \/ MonitorCycle(TRUE, {})
    \/ \E n \in ServedSizes, ok \in BOOLEAN : RequestsServed(n, ok)

SpecErrorRate == Init /\ [][NextErrorRate]_vars

\* a minute of traffic in one category: n operations of `duration` ms each
TraceLoad(category, duration, n) ==
    /\ MinuteOfHour(now) < MaxMinutes
    /\ TraceBatchDone(TraceRun(TrackerState, tracker_thresholds, category,
                               duration, 60000 \div MinP95Samples, now, n))
    /\ now' = now + 60000
    /\ lastOp' = [op |-> "trace_load"]
    /\ UNCHANGED <<threads, alertVars, tracker_thresholds, collectorVars>>

\* durations around the api_request alert threshold of alerts.py:58
NearThresholdMs == {1999, 2000, 2001}

\* the performance detector and the sweep: load just below, at and just
\* above the alert threshold, on a category with an alert threshold and on
\* one without; the threshold lowered in between
NextDetector ==
    \/ MonitorCycle(TRUE, {})
    \/ \E d \in NearThresholdMs : TraceLoad("api_request", d, MinP95Samples)
    \/ TraceLoad("api_request", SlowMs, MinP95Samples - 1)
    \/ TraceLoad("database_query", SlowMs, MinP95Samples)
    \/ SetThreshold("performance", "api_request_ms", 1999)

SpecDetector == Init /\ [][NextDetector]_vars

\* trigger_alert called with the details the caller chooses
TriggerAlertWith(alert_type, severity, message, details, io_ok, raisers) ==
    /\ Len(active_alerts) + Len(resolved_alerts) < MaxAlerts
    /\ LET r == TriggerAlertOp(AlertState, alert_handlers, alert_type, severity,
                               message, details, now, io_ok, raisers)
       IN  /\ active_alerts' = r.active
           /\ resolved_alerts' = r.resolved
           /\ alert_files' = r.files
           /\ lastOp' = [op |-> "trigger_alert", alert_type |-> alert_type,
                         calls |-> r.calls, ret |-> r.ret]
    /\ UNCHANGED <<threads, now, alert_handlers, thresholds, monitor_wake,
                   trackerVars, collectorVars>>

\* the details of a performance alert: a category and the threshold recorded
\* for it
RecordedDetails(category) == [category |-> category, threshold_ms |-> 2000]
\* durations of a recovered category: none measurable, FastMs, and the
\* recorded threshold itself
RecoveredMs == {0, FastMs, 2000}

\* the sweep: performance alerts with recorded category and threshold, other
\* alerts, and the load of the categories changing under them
NextSweep ==
    \/ MonitorCycle(TRUE, {})
    \/ TriggerAlertWith("performance", "warning", <<"m1">>,
                        RecordedDetails("api_request"), TRUE, {})
    \/ TriggerAlert("system", "warning", <<"m1">>, TRUE, {})
    \/ \E d \in RecoveredMs : TraceLoad("api_request", d, MinP95Samples)
    \/ TraceLoad("api_request", FastMs, MinP95Samples - 1)

SpecSweep == Init /\ [][NextSweep]_vars

(***************************************************************************)
(* The monitor thread as a loop that may raise.                            *)
(***************************************************************************)
\* the pass with a try/except of its own around each step: a step that
\* raises is logged and the steps after it run
MonitorLoopBodyStepwise(A, handlers, thr, pm, cm, t, io_ok, raisers, raise_at) ==
    LET checked == IF raise_at = 1 THEN A
                   ELSE CheckPerformanceAlerts(A, handlers, thr, pm, t, io_ok, raisers)
        rated == IF raise_at = 2 THEN checked
                 ELSE CheckErrorRateAlerts(checked, handlers, thr, cm, t, io_ok, raisers)
        swept == IF raise_at = 3 THEN rated
                 ELSE AutoResolveSweep(rated, pm, t, io_ok)
    IN  [A |-> swept, raised |-> raise_at # 0, pc |-> "sleep"]

\* the body of the loop without the except clause of lines 335-337: an
\* exception ends the thread
MonitorLoopBodyUncaught(A, handlers, thr, pm, cm, t, io_ok, raisers, raise_at) ==
    LET checked == IF raise_at = 1 THEN A
                   ELSE CheckPerformanceAlerts(A, handlers, thr, pm, t, io_ok, raisers)
        rated == IF raise_at \in {1, 2} THEN checked
                 ELSE CheckErrorRateAlerts(checked, handlers, thr, cm, t, io_ok, raisers)
        swept == IF raise_at \in {1, 2, 3} THEN rated
                 ELSE AutoResolveSweep(rated, pm, t, io_ok)
    IN  [A |-> swept, raised |-> raise_at # 0,
         pc |-> IF raise_at # 0 THEN "dead" ELSE "sleep"]

\* alerts.py:323-337: one pass of `while True`.  raise_at: the step that
\* raises (1 the performance detector, 2 the error-rate detector, 3 the
\* sweep; the steps before it have run), 0 when none does.  Either way the
\* thread then sleeps 60 s.
MonitorLoopBody(A, handlers, thr, pm, cm, t, io_ok, raisers, raise_at) ==
    LET checked == IF raise_at = 1 THEN A
                   ELSE CheckPerformanceAlerts(A, handlers, thr, pm, t, io_ok, raisers)
        rated == IF raise_at \in {1, 2} THEN checked
                 ELSE CheckErrorRateAlerts(checked, handlers, thr, cm, t, io_ok, raisers)
        swept == IF raise_at \in {1, 2, 3} THEN rated
                 ELSE AutoResolveSweep(rated, pm, t, io_ok)
    IN  [A |-> swept, raised |-> raise_at # 0, pc |-> "sleep"]

MonitorLoopDone(r, raise_at) ==
    /\ active_alerts' = r.A.active
    /\ resolved_alerts' = r.A.resolved
    /\ alert_files' = r.A.files
    /\ threads' = [threads EXCEPT !["monitor"] = [pc |-> r.pc]]
    /\ lastOp' = [op |-> "monitor_cycle", triggered |-> r.A.triggered,
                  swept |-> r.A.swept, raised |-> r.raised,
                  raise_at |-> raise_at]

MonitorLoop(raise_at) ==
    /\ threads["monitor"].pc = "sleep"
    /\ now >= monitor_wake
    /\ \E r \in {MonitorLoopBody(
                      [active |-> active_alerts, resolved |-> resolved_alerts,
                       files |-> alert_files, triggered |-> <<>>, swept |-> <<>>],
                      alert_handlers, thresholds,
                      GetPerformanceMetrics(historical_data, tracker_thresholds),
                      GetCurrentMetrics(CollectorState),
                      now, TRUE, {}, raise_at)} :
          MonitorLoopDone(r, raise_at)
    /\ monitor_wake' = now + MonitorSleepMs
    /\ UNCHANGED <<now, alert_handlers, thresholds, trackerVars, collectorVars>>

\* the alert system with its monitor thread started (alerts.py:83-85)
InitLoop ==
    /\ now = 0
    /\ InitAlertSystem
    /\ InitTracker
    /\ InitCollector
    /\ threads = [monitor |-> [pc |-> "sleep"]]
    /\ lastOp = [op |-> "init"]

\* the steps of a cycle that may raise
RaiseAt == 0..3

NextLoop ==
    \/ \E raise_at \in RaiseAt : MonitorLoop(raise_at)
    \/ TickMinute
    \/ TraceLoad("api_request", SlowMs, MinP95Samples)
    \/ TraceLoad("api_request", FastMs, MinP95Samples)
    \/ RequestBatch(FALSE)

SpecLoop == InitLoop /\ [][NextLoop]_vars

\* The clock advances and the thread is scheduled when its sleep has ended.
\* Whether a cycle can start does not depend on raise_at, and every cycle
\* starts a new sleep: weak fairness of the cycles with one raise_at is weak
\* fairness of the thread.
FairLoop ==
    /\ SpecLoop
    /\ WF_vars(TickMinute)
    /\ WF_vars(MonitorLoop(1))

(***************************************************************************)
(* Monitor threads step by step: what one thread does between two          *)
(* acquisitions of alert_lock is one step.  A thread's entry in `threads`  *)
(* holds its position pc and its local variables.                          *)
(***************************************************************************)
MonitorThreads == {"monitor1", "monitor2"}
MaxSeconds == 1

SetThread(th, local) == threads' = [threads EXCEPT ![th] = local]

\* a second passes
TickSecond ==
    /\ (now % 60000) \div 1000 < MaxSeconds
    /\ now' = now + 1000
    /\ lastOp' = [op |-> "tick"]
    /\ UNCHANGED <<threads, alertVars, trackerVars, collectorVars>>

\* alerts.py:267: the cycle starts, the detector reads the metrics
MonitorBegin(th) ==
    /\ threads[th].pc = "ready"
    /\ SetThread(th, [pc |-> "check",
                      performance_metrics |->
                          GetPerformanceMetrics(historical_data, tracker_thresholds)])
    /\ lastOp' = [op |-> "monitor_begin", thread |-> th]
    /\ UNCHANGED <<now, alertVars, trackerVars, collectorVars>>

\* alerts.py:270-282: the conditions on one category, the last of them the
\* test that the key is not in active_alerts; no lock is held
ShouldTrigger(active, thr, category, metrics, t) ==
    LET threshold_key == ThresholdKey(category)
    IN  /\ "performance" \in DOMAIN thr
        /\ threshold_key \in DOMAIN thr["performance"]
        /\ metrics.p95_ms # NoValue /\ metrics.p95_ms[1] # 0
        /\ metrics.p95_ms[1] > thr["performance"][threshold_key]
        /\ ~DictHas(active, PerformanceAlertKey(category, t))

\* alerts.py:269-282: the loop reaches the next category and decides
MonitorCheck(th) ==
    /\ threads[th].pc = "check"
    /\ LET pm == threads[th].performance_metrics
       IN  IF pm = <<>>
           THEN SetThread(th, [pc |-> "rest"])
           ELSE IF ShouldTrigger(active_alerts, thresholds, pm[1].key, pm[1].val, now)
           THEN SetThread(th, [pc |-> "trigger", performance_metrics |-> pm,
                               threshold_ms |->
                                   thresholds["performance"][ThresholdKey(pm[1].key)]])
           ELSE SetThread(th, [pc |-> "check", performance_metrics |-> Tail(pm)])
    /\ lastOp' = [op |-> "monitor_check", thread |-> th]
    /\ UNCHANGED <<now, alertVars, trackerVars, collectorVars>>

\* alerts.py:283-293: the trigger_alert the check decided on
MonitorTrigger(th) ==
    /\ threads[th].pc = "trigger"
    /\ LET pm == threads[th].performance_metrics
           category == pm[1].key
           metrics == pm[1].val
           r == TriggerAlertOp(AlertState, alert_handlers, "performance", "warning",
                               <<"Performance degradation", category,
                                 metrics.p95_ms[1], threads[th].threshold_ms>>,
                               [category |-> category, p95_ms |-> metrics.p95_ms[1],
                                threshold_ms |-> threads[th].threshold_ms,
                                metrics |-> metrics],
                               now, TRUE, {})
       IN  /\ active_alerts' = r.active
           /\ resolved_alerts' = r.resolved
           /\ alert_files' = r.files
           /\ SetThread(th, [pc |-> "check", performance_metrics |-> Tail(pm)])
           /\ lastOp' = [op |-> "monitor_trigger", thread |-> th,
                         category |-> category, calls |-> r.calls, ret |-> r.ret]
    /\ UNCHANGED <<now, alert_handlers, thresholds, monitor_wake, trackerVars,
                   collectorVars>>

\* alerts.py:326-333: the error-rate detector, the sweep, the sleep
MonitorRest(th) ==
    /\ threads[th].pc = "rest"
    /\ LET pm == GetPerformanceMetrics(historical_data, tracker_thresholds)
           A == AutoResolveSweep(
                    CheckErrorRateAlerts(
                        [active |-> active_alerts, resolved |-> resolved_alerts,
                         files |-> alert_files, triggered |-> <<>>, swept |-> <<>>],
                        alert_handlers, thresholds, GetCurrentMetrics(CollectorState),
                        now, TRUE, {}),
                    pm, now, TRUE)
       IN  /\ active_alerts' = A.active
           /\ resolved_alerts' = A.resolved
           /\ alert_files' = A.files
           /\ lastOp' = [op |-> "monitor_rest", thread |-> th, swept |-> A.swept]
    /\ SetThread(th, [pc |-> "sleep"])
    /\ UNCHANGED <<now, alert_handlers, thresholds, monitor_wake, trackerVars,
                   collectorVars>>

\* two monitor threads on one alert system, each about to start a cycle
InitRace ==
    /\ now = 0
    /\ InitAlertSystem
    /\ InitTracker
    /\ InitCollector
    /\ threads = [th \in MonitorThreads |-> [pc |-> "ready"]]
    /\ lastOp = [op |-> "init"]

NextRace ==
    \/ \E th \in MonitorThreads :
          \/ MonitorBegin(th)
          \/ MonitorCheck(th)
          \/ MonitorTrigger(th)
          \/ MonitorRest(th)
    \/ TickSecond
    \/ \E d \in {SlowMs, FastMs} : TraceLoad("api_request", d, MinP95Samples)

SpecRace == InitRace /\ [][NextRace]_vars

(***************************************************************************)
(* MetricsCollector calls on concurrent threads.  The collector has no     *)
(* lock: a thread may be suspended between a test and the statement that   *)
(* relies on it, and between the read and the write of `x += 1`.  The      *)
(* entry "tally" of `threads` counts the calls made: start_request calls   *)
(* begun and returned, complete_request calls that returned a context,     *)
(* calls that raised.                                                      *)
(***************************************************************************)
Workers == {"w1", "w2"}
Idle == [pc |-> "idle"]
Tally(field) == [threads["tally"] EXCEPT ![field] = @ + 1]

\* metrics_collector.py:85-87: the context is stored and total_requests is
\* read for the increment
StartRequestRead(th, request_id) ==
    /\ threads[th].pc = "idle"
    /\ threads["tally"].begun < MaxRequests
    /\ active_contexts' = DictPut(active_contexts, request_id,
                                  NewContext(request_id, "u1", "s1", now))
    /\ threads' = [threads EXCEPT
                      ![th] = [pc |-> "start_store", read |-> total_requests],
                      !["tally"] = Tally("begun")]
    /\ lastOp' = [op |-> "start_request_read", thread |-> th]
    /\ UNCHANGED <<now, alertVars, trackerVars, historical_metrics, total_requests,
                   successful_requests, failed_requests, total_latency_ms,
                   tool_usage, agent_usage, guardrail_blocks>>

\* metrics_collector.py:87-88: the incremented value is written; return
StartRequestStore(th) ==
    /\ threads[th].pc = "start_store"
    /\ total_requests' = threads[th].read + 1
    /\ threads' = [threads EXCEPT ![th] = Idle, !["tally"] = Tally("started")]
    /\ lastOp' = [op |-> "start_request", thread |-> th]
    /\ UNCHANGED <<now, alertVars, trackerVars, active_contexts, historical_metrics,
                   successful_requests, failed_requests, total_latency_ms,
                   tool_usage, agent_usage, guardrail_blocks>>

\* metrics_collector.py:136-137: the membership test
CompleteRequestTest(th, request_id, success) ==
    /\ threads[th].pc = "idle"
    /\ threads' = [threads EXCEPT
                      ![th] = IF DictHas(active_contexts, request_id)
                              THEN [pc |-> "complete_pop", request_id |-> request_id,
                                    success |-> success]
                              ELSE Idle]
    /\ lastOp' = [op |-> "complete_request_test", thread |-> th,
                  request_id |-> request_id,
                  found |-> DictHas(active_contexts, request_id)]
    /\ UNCHANGED <<now, alertVars, trackerVars, collectorVars>>

\* metrics_collector.py:140-147: active_contexts.pop(request_id), a KeyError
\* when the id is no longer there; the context is completed and the counter
\* of the outcome is read for the increment
CompleteRequestPop(th) ==
    /\ threads[th].pc = "complete_pop"
    /\ LET request_id == threads[th].request_id
       IN  IF DictHas(active_contexts, request_id)
           THEN /\ active_contexts' = DictPop(active_contexts, request_id)
                /\ threads' = [threads EXCEPT
                      ![th] = [pc |-> "complete_store", request_id |-> request_id,
                               success |-> threads[th].success,
                               context |-> DictGet(active_contexts, request_id),
                               end_time |-> now,
                               read |-> IF threads[th].success
                                        THEN successful_requests
                                        ELSE failed_requests]]
                /\ lastOp' = [op |-> "complete_request_pop", thread |-> th,
                              raised |-> FALSE]
           ELSE /\ active_contexts' = active_contexts
                /\ threads' = [threads EXCEPT ![th] = Idle,
                                              !["tally"] = Tally("raised")]
                /\ lastOp' = [op |-> "complete_request_pop", thread |-> th,
                              raised |-> TRUE]
    /\ UNCHANGED <<now, alertVars, trackerVars, historical_metrics, total_requests,
                   successful_requests, failed_requests, total_latency_ms,
                   tool_usage, agent_usage, guardrail_blocks>>

\* metrics_collector.py:144-173: the counter is written, the latency added,
\* the record appended to the history; the context is returned
CompleteRequestStore(th) ==
    /\ threads[th].pc = "complete_store"
    /\ LET local == threads[th]
           before == [CollectorState EXCEPT
                         !.active_contexts = <<[key |-> local.request_id,
                                                val |-> local.context]>>,
                         !.successful_requests =
                             IF local.success THEN local.read ELSE @,
                         !.failed_requests =
                             IF local.success THEN @ ELSE local.read]
           r == CompleteRequestOp(before, local.request_id, local.success,
                                  local.end_time)
       IN  /\ SetCollector([r.C EXCEPT !.active_contexts = active_contexts])
           /\ lastOp' = [op |-> "complete_request", thread |-> th, ret |-> r.ret]
    /\ threads' = [threads EXCEPT ![th] = Idle, !["tally"] = Tally("returned")]
    /\ UNCHANGED <<now, alertVars, trackerVars>>

\* metrics_collector.py:100: the membership test of record_tool_call
RecordToolCallTest(th, request_id, tool_name) ==
    /\ threads[th].pc = "idle"
    /\ MayRecord(request_id)
    /\ threads' = [threads EXCEPT
                      ![th] = IF DictHas(active_contexts, request_id)
                              THEN [pc |-> "record_update", request_id |-> request_id,
                                    tool_name |-> tool_name]
                              ELSE Idle]
    /\ lastOp' = [op |-> "record_tool_call_test", thread |-> th]
    /\ UNCHANGED <<now, alertVars, trackerVars, collectorVars>>

\* metrics_collector.py:101-103: active_contexts[request_id], a KeyError
\* when the id is no longer there; the two counters are incremented
RecordToolCallUpdate(th) ==
    /\ threads[th].pc = "record_update"
    /\ IF DictHas(active_contexts, threads[th].request_id)
       THEN /\ SetCollector(RecordToolCallOp(CollectorState, threads[th].request_id,
                                             threads[th].tool_name))
            /\ threads' = [threads EXCEPT ![th] = Idle]
            /\ lastOp' = [op |-> "record_tool_call", thread |-> th, raised |-> FALSE]
       ELSE /\ UNCHANGED collectorVars
            /\ threads' = [threads EXCEPT ![th] = Idle, !["tally"] = Tally("raised")]
            /\ lastOp' = [op |-> "record_tool_call", thread |-> th, raised |-> TRUE]
    /\ UNCHANGED <<now, alertVars, trackerVars>>

\* the collector and two threads that call it
InitWorkers ==
    /\ now = 0
    /\ InitAlertSystem
    /\ InitTracker
    /\ InitCollector
    /\ threads = [th \in Workers \cup {"tally"} |->
                     IF th = "tally"
                     THEN [begun |-> 0, started |-> 0, returned |-> 0, raised |-> 0]
                     ELSE Idle]
    /\ lastOp = [op |-> "init"]

NextWorkers ==
    \E th \in Workers :
        \/ \E id \in RequestIds : StartRequestRead(th, id)
        \/ StartRequestStore(th)
        \/ \E id \in RequestIds, ok \in BOOLEAN : CompleteRequestTest(th, id, ok)
        \/ CompleteRequestPop(th)
        \/ CompleteRequestStore(th)
        \/ \E id \in RequestIds, tool \in ToolNames : RecordToolCallTest(th, id, tool)
        \/ RecordToolCallUpdate(th)

SpecWorkers == InitWorkers /\ [][NextWorkers]_vars

(***************************************************************************)
(* trigger_alert and resolve_alert on concurrent threads.  alert_lock is   *)
(* held for the update of the in-memory structures only (alerts.py:147,    *)
(* 174); _save_alert runs after its release.  The alert passed to          *)
(* _save_alert is the dict object the structures hold: what is written is  *)
(* the object's content at the time of the write.                          *)
(***************************************************************************)
AlertThreads == {"t1", "t2"}

\* the alert object of an id: in the active set or in the resolved list
AlertObject(alert_id) ==
    IF DictHas(active_alerts, alert_id) THEN DictGet(active_alerts, alert_id)
    ELSE resolved_alerts[CHOOSE i \in DOMAIN resolved_alerts :
                             resolved_alerts[i].id = alert_id]

\* the ids of the calls in progress
InProgress == {threads[th].alert_id : th \in {x \in DOMAIN threads : threads[x].pc # "idle"}}

\* alerts.py:132-148: the alert is built and, under the lock, inserted.  Each
\* message is used once, so that no id is issued twice.
TriggerInsert(th, message) ==
    /\ threads[th].pc = "idle"
    /\ AlertId("system", now, message) \notin
          DictKeys(active_alerts)
            \cup {resolved_alerts[i].id : i \in DOMAIN resolved_alerts}
    /\ LET r == TriggerAlertOp(AlertState, alert_handlers, "system", "critical",
                               message, ManualDetails, now, FALSE, {})
       IN  /\ active_alerts' = r.active
           /\ threads' = [threads EXCEPT
                             ![th] = [pc |-> "save_open", call |-> "trigger_alert",
                                      alert_id |-> r.ret]]
    /\ lastOp' = [op |-> "trigger_insert", thread |-> th]
    /\ UNCHANGED <<now, resolved_alerts, alert_handlers, thresholds, alert_files,
                   monitor_wake, trackerVars, collectorVars>>

\* alerts.py:174-187: under the lock, the alert is moved to the resolved
\* list; an id that is not active returns false
ResolvePop(th, alert_id, resolution_message) ==
    /\ threads[th].pc = "idle"
    /\ LET r == ResolveAlertOp(AlertState, alert_id, resolution_message, now, FALSE)
       IN  /\ active_alerts' = r.active
           /\ resolved_alerts' = r.resolved
           /\ threads' = [threads EXCEPT
                             ![th] = IF r.ret
                                     THEN [pc |-> "save_open", call |-> "resolve_alert",
                                           alert_id |-> alert_id]
                                     ELSE Idle]
           /\ lastOp' = [op |-> "resolve_pop", thread |-> th, ret |-> r.ret]
    /\ UNCHANGED <<now, alert_handlers, thresholds, alert_files, monitor_wake,
                   trackerVars, collectorVars>>

\* alerts.py:224-227: _save_alert reads the status and builds the file name
SaveOpen(th) ==
    /\ threads[th].pc = "save_open"
    /\ threads' = [threads EXCEPT
                      ![th] = [pc |-> "save_write", call |-> threads[th].call,
                               alert_id |-> threads[th].alert_id,
                               status |-> AlertObject(threads[th].alert_id).status]]
    /\ lastOp' = [op |-> "save_open", thread |-> th]
    /\ UNCHANGED <<now, alertVars, trackerVars, collectorVars>>

\* alerts.py:229-236: the file of that name is written with the alert; for
\* the status resolved the file of the active alert is removed.  resolve_alert
\* then returns, trigger_alert goes on to the handlers.
SaveWrite(th) ==
    /\ threads[th].pc = "save_write"
    /\ LET alert == AlertObject(threads[th].alert_id)
           filepath == AlertFileName(threads[th].status, alert.type, alert.id)
           written == (filepath :> alert) @@ alert_files
           active_file == AlertFileName("active", alert.type, alert.id)
       IN  alert_files' =
               IF threads[th].status = "resolved" /\ active_file \in DOMAIN written
               THEN [f \in DOMAIN written \ {active_file} |-> written[f]]
               ELSE written
    /\ threads' = [threads EXCEPT
                      ![th] = IF threads[th].call = "trigger_alert"
                              THEN [pc |-> "handlers", call |-> "trigger_alert",
                                    alert_id |-> threads[th].alert_id]
                              ELSE Idle]
    /\ lastOp' = [op |-> "save_write", thread |-> th, call |-> threads[th].call]
    /\ UNCHANGED <<now, active_alerts, resolved_alerts, alert_handlers, thresholds,
                   monitor_wake, trackerVars, collectorVars>>

\* alerts.py:153-161: the handlers are called, the id is returned
TriggerHandlers(th) ==
    /\ threads[th].pc = "handlers"
    /\ threads' = [threads EXCEPT ![th] = Idle]
    /\ lastOp' = [op |-> "trigger_alert", thread |-> th,
                  calls |-> CallHandlers(alert_handlers["system"],
                                         AlertObject(threads[th].alert_id), {}),
                  ret |-> threads[th].alert_id]
    /\ UNCHANGED <<now, alertVars, trackerVars, collectorVars>>

\* the alert system and two threads that call it
InitAlertThreads ==
    /\ now = 0
    /\ InitAlertSystem
    /\ InitTracker
    /\ InitCollector
    /\ threads = [th \in AlertThreads |-> Idle]
    /\ lastOp = [op |-> "init"]

NextAlertThreads ==
    \E th \in AlertThreads :
        \/ \E m \in ManualMessages : TriggerInsert(th, m)
        \/ \E id \in KnownAlertIds, m \in ResolutionMessages : ResolvePop(th, id, m)
        \/ SaveOpen(th)
        \/ SaveWrite(th)
        \/ TriggerHandlers(th)

SpecAlertThreads == InitAlertThreads /\ [][NextAlertThreads]_vars

(***************************************************************************)
(* The construction of an AlertSystem (alerts.py:39-90): __init__ starts   *)
(* the monitor thread and then registers the default handlers.             *)
(***************************************************************************)
\* alerts.py:51-53: no handler yet
NoHandlers == [ty \in SeqRange(AlertType) |-> <<>>]

\* alerts.py:83-85: the monitor thread is started
ConstructorStartThread ==
    /\ threads["constructor"].pc = "start_thread"
    /\ threads' = [threads EXCEPT !["constructor"] = [pc |-> "register_log"],
                                  !["monitor1"] = [pc |-> "ready"]]
    /\ lastOp' = [op |-> "start_thread"]
    /\ UNCHANGED <<now, alertVars, trackerVars, collectorVars>>

\* alerts.py:244-245: the logging handler is registered for every type
ConstructorRegisterLog ==
    /\ threads["constructor"].pc = "register_log"
    /\ alert_handlers' = [ty \in DOMAIN alert_handlers |->
                             Append(alert_handlers[ty], DefaultHandlers[1])]
    /\ threads' = [threads EXCEPT !["constructor"] = [pc |-> "register_email"]]
    /\ lastOp' = [op |-> "register_log"]
    /\ UNCHANGED <<now, active_alerts, resolved_alerts, thresholds, alert_files,
                   monitor_wake, trackerVars, collectorVars>>

\* alerts.py:248-249: the e-mail handler is registered for every type;
\* __init__ returns
ConstructorRegisterEmail ==
    /\ threads["constructor"].pc = "register_email"
    /\ alert_handlers' = [ty \in DOMAIN alert_handlers |->
                             Append(alert_handlers[ty], DefaultHandlers[2])]
    /\ threads' = [threads EXCEPT !["constructor"] = [pc |-> "done"]]
    /\ lastOp' = [op |-> "register_email"]
    /\ UNCHANGED <<now, active_alerts, resolved_alerts, thresholds, alert_files,
                   monitor_wake, trackerVars, collectorVars>>

\* trigger_alert called on the constructed instance
TriggerConstructed(alert_type, severity, message) ==
    /\ threads["constructor"].pc = "done"
    /\ TriggerAlert(alert_type, severity, message, TRUE, {})

\* An AlertSystem about to start its monitor thread; the tracker it reads,
\* shared by the process, has seen a minute of traffic or none.
InitConstruct ==
    /\ now = 60000
    /\ active_alerts = <<>>
    /\ resolved_alerts = <<>>
    /\ alert_handlers = NoHandlers
    /\ thresholds =
         [performance |-> [api_request_ms |-> 2000, llm_call_ms |-> 5000,
                           tool_execution_ms |-> 1000],
          error_rate |-> [max_error_rate |-> <<5, 100>>, window_size |-> 100],
          guardrail |-> [max_block_rate |-> <<10, 100>>],
          usage |-> [max_requests_per_minute |-> 100,
                     max_tokens_per_minute |-> 10000]]
    /\ alert_files = <<>>
    /\ monitor_wake = 60000
    /\ \E d \in {SlowMs, FastMs}, n \in {0, MinP95Samples} :
          LET T == TraceRun([traces |-> <<>>, historical_data |-> <<>>],
                            DefaultTrackerThresholds, "api_request", d,
                            60000 \div MinP95Samples, 0, n)
          IN  traces = T.traces /\ historical_data = T.historical_data
    /\ tracker_thresholds = DefaultTrackerThresholds
    /\ InitCollector
    /\ threads = [constructor |-> [pc |-> "start_thread"],
                  monitor1 |-> [pc |-> "unstarted"]]
    /\ lastOp = [op |-> "init"]

NextConstruct ==
    \/ ConstructorStartThread
    \/ ConstructorRegisterLog
    \/ ConstructorRegisterEmail
    \/ MonitorBegin("monitor1")
    \/ MonitorCheck("monitor1")
    \/ MonitorTrigger("monitor1")
    \/ MonitorRest("monitor1")
    \/ \E ty \in ManualTypes, m \in ManualMessages :
          TriggerConstructed(ty, "warning", m)
    \/ TickSecond

SpecConstruct == InitConstruct /\ [][NextConstruct]_vars

(***************************************************************************)
(* AnalyticsService: the reports computed from the collector's history.    *)
(* A report's dicts are insertion-ordered dicts, a quotient is             *)
(* <<numerator, denominator>>, None is NoValue and a number v is Some(v)   *)
(* where the code may also produce None.  An hour key ("%Y-%m-%d %H:00")   *)
(* is the number of whole hours of the timestamp, a day key ("%Y-%m-%d")   *)
(* the number of whole days.                                               *)
(***************************************************************************)
HourMs == 3600000
DayMs == 86400000
NoMetrics == [message |-> "No metrics available"]

Latencies(metrics) == [i \in DOMAIN metrics |-> metrics[i].latency_ms]
\* sum(...) / len(...) if ... else 0
Average(total, count) == IF count > 0 THEN <<total, count>> ELSE <<0, 1>>
Successful(metrics) == Len(SelectSeq(metrics, LAMBDA m : m.success))
TokensIn(metrics) == Sum([i \in DOMAIN metrics |-> metrics[i].llm_tokens_in])
TokensOut(metrics) == Sum([i \in DOMAIN metrics |-> metrics[i].llm_tokens_out])

\* defaultdict(list): d[key].append(v) for each key of `keys`
RECURSIVE AppendUnder(_, _, _)
AppendUnder(d, keys, v) ==
    IF keys = <<>> THEN d
    ELSE LET k == Head(keys)
             sofar == IF DictHas(d, k) THEN DictGet(d, k) ELSE <<>>
         IN  AppendUnder(DictPut(d, k, Append(sofar, v)), Tail(keys), v)

\* the metrics grouped by timestamp \div unit, groups in order of first record
RECURSIVE GroupByTime(_, _, _)
GroupByTime(metrics, unit, d) ==
    IF metrics = <<>> THEN d
    ELSE GroupByTime(Tail(metrics), unit,
                     AppendUnder(d, <<Head(metrics).timestamp \div unit>>, Head(metrics)))

\* Counter: counter[key] += count for every item of the dict `calls`
RECURSIVE AddCounts(_, _)
AddCounts(counter, calls) ==
    IF calls = <<>> THEN counter
    ELSE LET k == Head(calls).key
             sofar == IF DictHas(counter, k) THEN DictGet(counter, k) ELSE 0
         IN  AddCounts(DictPut(counter, k, sofar + Head(calls).val), Tail(calls))
RECURSIVE ToolCallCounts(_, _)
ToolCallCounts(metrics, counter) ==
    IF metrics = <<>> THEN counter
    ELSE ToolCallCounts(Tail(metrics), AddCounts(counter, Head(metrics).tool_calls))
RECURSIVE AgentCallCounts(_, _)
AgentCallCounts(metrics, counter) ==
    IF metrics = <<>> THEN counter
    ELSE AgentCallCounts(Tail(metrics), AddCounts(counter, Head(metrics).agent_calls))

\* analytics_service.py:103-141
CalculateDailyStats(metrics) ==
    IF metrics = <<>> THEN NoMetrics
    ELSE LET metrics_by_day == GroupByTime(metrics, DayMs, <<>>)
         IN  [d \in DOMAIN metrics_by_day |->
                LET day_metrics == metrics_by_day[d].val
                    successful == Successful(day_metrics)
                IN  [key |-> metrics_by_day[d].key,
                     val |-> [total_requests |-> Len(day_metrics),
                              successful_requests |-> successful,
                              failed_requests |-> Len(day_metrics) - successful,
                              success_rate |-> Average(successful, Len(day_metrics)),
                              average_latency_ms |->
                                  Average(Sum(Latencies(day_metrics)), Len(day_metrics)),
                              top_tools |-> MostCommon(ToolCallCounts(day_metrics, <<>>), 5),
                              top_agents |-> MostCommon(AgentCallCounts(day_metrics, <<>>), 5)]]]

\* analytics_service.py:143-169
CalculateHourlyStats(metrics) ==
    IF metrics = <<>> THEN NoMetrics
    ELSE LET metrics_by_hour == GroupByTime(metrics, HourMs, <<>>)
         IN  [h \in DOMAIN metrics_by_hour |->
                LET hour_metrics == metrics_by_hour[h].val
                    successful == Successful(hour_metrics)
                IN  [key |-> metrics_by_hour[h].key,
                     val |-> [total_requests |-> Len(hour_metrics),
                              successful_requests |-> successful,
                              failed_requests |-> Len(hour_metrics) - successful,
                              success_rate |-> Average(successful, Len(hour_metrics)),
                              average_latency_ms |->
                                  Average(Sum(Latencies(hour_metrics)), Len(hour_metrics))]]]

\* the metrics grouped by user, users in order of first record
RECURSIVE GroupByUser(_, _)
GroupByUser(metrics, d) ==
    IF metrics = <<>> THEN d
    ELSE GroupByUser(Tail(metrics), AppendUnder(d, <<Head(metrics).user_id>>, Head(metrics)))

\* analytics_service.py:171-222
AnalyzeUsers(metrics, t) ==
    IF metrics = <<>> THEN NoMetrics
    ELSE LET metrics_by_user == GroupByUser(metrics, <<>>)
             user_stats ==
                 [u \in DOMAIN metrics_by_user |->
                    LET user_metrics == metrics_by_user[u].val
                        timestamps ==
                            Sorted([i \in DOMAIN user_metrics |-> user_metrics[i].timestamp])
                    IN  [key |-> metrics_by_user[u].key,
                         val |-> [request_count |-> Len(user_metrics),
                                  session_count |->
                                      Cardinality({user_metrics[i].session_id :
                                                      i \in DOMAIN user_metrics}),
                                  first_seen |-> timestamps[1],
                                  last_seen |-> timestamps[Len(timestamps)],
                                  days_active |->
                                      Cardinality({timestamps[i] \div DayMs :
                                                      i \in DOMAIN timestamps}),
                                  preferred_tools |->
                                      MostCommon(ToolCallCounts(user_metrics, <<>>), 3)]]]
         IN  [active_users |-> Len(user_stats),
              new_users_last_day |->
                  Cardinality({u \in DOMAIN user_stats :
                                  user_stats[u].val.first_seen >= t - DayMs}),
              user_details |-> user_stats]

\* for tool in m["tool_calls"]: tool_latencies[tool].append(m["latency_ms"])
RECURSIVE ToolLatencies(_, _)
ToolLatencies(metrics, d) ==
    IF metrics = <<>> THEN d
    ELSE ToolLatencies(Tail(metrics),
                       AppendUnder(d, [i \in DOMAIN Head(metrics).tool_calls |->
                                          Head(metrics).tool_calls[i].key],
                                   Head(metrics).latency_ms))

\* sorted(latencies)[int(len(latencies)*0.95)]; int(len * 0.95) is
\* (len * 95) \div 100 for every len the history can hold
AtP95Index(latencies) == Sorted(latencies)[(Len(latencies) * 95) \div 100 + 1]

\* analytics_service.py:224-262
AnalyzePerformance(metrics) ==
    IF metrics = <<>> THEN NoMetrics
    ELSE LET latencies == Latencies(metrics)
             tool_latencies == ToolLatencies(metrics, <<>>)
         IN  [average_latency_ms |-> Average(Sum(latencies), Len(latencies)),
              median_latency_ms |-> Sorted(latencies)[Len(latencies) \div 2 + 1],
              p95_latency_ms |-> Some(AtP95Index(latencies)),
              min_latency_ms |-> Sorted(latencies)[1],
              max_latency_ms |-> Sorted(latencies)[Len(latencies)],
              total_llm_tokens_in |-> TokensIn(metrics),
              total_llm_tokens_out |-> TokensOut(metrics),
              average_tokens_per_request |->
                  [in |-> Average(TokensIn(metrics), Len(metrics)),
                   out |-> Average(TokensOut(metrics), Len(metrics))],
              tool_performance |->
                  [e \in DOMAIN tool_latencies |->
                     LET tool == tool_latencies[e].val
                     IN  [key |-> tool_latencies[e].key,
                          val |-> [count |-> Len(tool),
                                   average_latency_ms |-> Average(Sum(tool), Len(tool)),
                                   p95_latency_ms |->
                                       IF Len(tool) >= 20 THEN Some(AtP95Index(tool))
                                       ELSE NoValue]]]]

\* analytics_service.py:264-290
AnalyzeContent(metrics) ==
    IF metrics = <<>> THEN NoMetrics
    ELSE [most_used_tools |-> MostCommon(ToolCallCounts(metrics, <<>>), 10),
          most_delegated_agents |-> MostCommon(AgentCallCounts(metrics, <<>>), 5),
          guardrail_block_rate |->
              Average(Sum([i \in DOMAIN metrics |-> metrics[i].guardrail_blocks]),
                      Len(metrics))]

\* analytics_service.py:292-319
AnalyzeHourlyPerformance(metrics) ==
    IF metrics = <<>> THEN NoMetrics
    ELSE LET metrics_by_hour == GroupByTime(metrics, HourMs, <<>>)
         IN  [h \in DOMAIN metrics_by_hour |->
                LET hour_metrics == metrics_by_hour[h].val
                    latencies == Latencies(hour_metrics)
                IN  [key |-> metrics_by_hour[h].key,
                     val |-> [request_count |-> Len(hour_metrics),
                              average_latency_ms |-> Average(Sum(latencies), Len(latencies)),
                              p95_latency_ms |->
                                  IF Len(latencies) >= 20 THEN Some(AtP95Index(latencies))
                                  ELSE NoValue,
                              error_rate |->
                                  Average(Len(hour_metrics) - Successful(hour_metrics),
                                          Len(hour_metrics)),
                              token_usage |-> [in |-> TokensIn(hour_metrics),
                                               out |-> TokensOut(hour_metrics)]]]]

\* analytics_service.py:41-68: the collector it leaves and the report
GenerateDailyReportOp(C, t) ==
    LET history == C.historical_metrics
    IN  [C |-> C,
         ret |-> [report_type |-> "daily",
                  generated_at |-> t,
                  current_metrics |-> GetCurrentMetrics(C),
                  daily_statistics |-> CalculateDailyStats(history),
                  user_analytics |-> AnalyzeUsers(history, t),
                  performance_analytics |-> AnalyzePerformance(history),
                  content_analytics |-> AnalyzeContent(history)]]

\* the last 24 hours of the history
LastDay(metrics, t) == SelectSeq(metrics, LAMBDA m : m.timestamp >= t - DayMs)

\* generate_hourly_report cutting the collector's own history to the last day
GenerateHourlyReportOpPruning(C, t) ==
    LET history == LastDay(C.historical_metrics, t)
    IN  [C |-> [C EXCEPT !.historical_metrics = history],
         ret |-> [report_type |-> "hourly",
                  generated_at |-> t,
                  current_metrics |-> GetCurrentMetrics(C),
                  hourly_statistics |-> CalculateHourlyStats(history),
                  performance_trends |-> AnalyzeHourlyPerformance(history)]]

\* analytics_service.py:70-101: the collector it leaves and the report
GenerateHourlyReportOp(C, t) ==
    LET history == LastDay(C.historical_metrics, t)
    IN  [C |-> C,
         ret |-> [report_type |-> "hourly",
                  generated_at |-> t,
                  current_metrics |-> GetCurrentMetrics(C),
                  hourly_statistics |-> CalculateHourlyStats(history),
                  performance_trends |-> AnalyzeHourlyPerformance(history)]]

GenerateDailyReport ==
    LET r == GenerateDailyReportOp(CollectorState, now)
    IN  /\ SetCollector(r.C)
        /\ lastOp' = [op |-> "generate_daily_report", ret |-> r.ret]
        /\ UNCHANGED <<threads, now, alertVars, trackerVars>>

GenerateHourlyReport ==
    LET r == GenerateHourlyReportOp(CollectorState, now)
    IN  /\ SetCollector(r.C)
        /\ lastOp' = [op |-> "generate_hourly_report", ret |-> r.ret]
        /\ UNCHANGED <<threads, now, alertVars, trackerVars>>

\* hours pass until the history is a day old
ElapseHours(hours) ==
    /\ now < DayMs
    /\ now' = now + hours * HourMs
    /\ lastOp' = [op |-> "elapse_hours"]
    /\ UNCHANGED <<threads, alertVars, trackerVars, collectorVars>>

\* One request every three minutes: twenty requests fall in an hour.
RequestPeriodMs == 180000
\* The collector after the requests i..Len(durations), each completed
\* before the next starts: every request but the first calls a tool, every
\* fourth fails, two users take turns.  The history stays below its
\* capacity (metrics_collector.py:53), so no record is evicted.
RECURSIVE ServedRequests(_, _, _)
ServedRequestsOn(served, durations, i) ==
    IF served.total_requests = 0 THEN served
    ELSE ServedRequests(served, durations, i + 1)
ServedRequests(C, durations, i) ==
    IF i > Len(durations) THEN C
    ELSE LET t == (i - 1) * RequestPeriodMs
             started == StartRequestOp(C, "r1", IF i % 2 = 1 THEN "u1" ELSE "u2", "s1", t)
             recorded == IF i > 1 THEN RecordToolCallOp(started, "r1", "get_balance")
                         ELSE started
             completed == CompleteRequestOp(recorded, "r1", i % 4 # 0, t + durations[i]).C
             context_dict == completed.historical_metrics[Len(completed.historical_metrics)]
         IN  ServedRequestsOn([completed EXCEPT
                                  !.historical_metrics =
                                      Append(C.historical_metrics, context_dict)],
                              durations, i)

\* the collector after n requests, with or without one more still active,
\* two hours after the first
InitAnalytics ==
    \E n \in 0..MaxSamples, k \in 0..MaxShift, descending, pending \in BOOLEAN :
        LET served == ServedRequests([active_contexts |-> <<>>,
                                      historical_metrics |-> <<>>,
                                      total_requests |-> 0,
                                      successful_requests |-> 0,
                                      failed_requests |-> 0,
                                      total_latency_ms |-> 0,
                                      tool_usage |-> <<>>,
                                      agent_usage |-> <<>>,
                                      guardrail_blocks |-> 0],
                                     SampleDurations(n, k, descending), 1)
            C == IF pending
                 THEN RecordToolCallOp(
                          StartRequestOp(served, "r2", "u1", "s1", 2 * HourMs),
                          "r2", "get_balance")
                 ELSE served
        IN  /\ active_contexts = C.active_contexts
            /\ historical_metrics = C.historical_metrics
            /\ total_requests = C.total_requests
            /\ successful_requests = C.successful_requests
            /\ failed_requests = C.failed_requests
            /\ total_latency_ms = C.total_latency_ms
            /\ tool_usage = C.tool_usage
            /\ agent_usage = C.agent_usage
            /\ guardrail_blocks = C.guardrail_blocks
            /\ now = 2 * HourMs
            /\ InitAlertSystem
            /\ InitTracker
            /\ threads = <<>>
            /\ lastOp = [op |-> "init"]

NextAnalytics ==
    \/ GenerateDailyReport
    \/ GenerateHourlyReport
    \/ \E hours \in {23, 24} : ElapseHours(hours)

SpecAnalytics == InitAnalytics /\ [][NextAnalytics]_vars

(***************************************************************************)
(* The archive of resolved alerts under more resolutions than its          *)
(* capacity: alerts are triggered without a bound on their number, each    *)
(* id once; the clock bounds the ids.                                      *)
(***************************************************************************)
TriggerAlertAnew(message) ==
    /\ \A f \in DOMAIN alert_files :
          alert_files[f].id # AlertId("system", now, message)
    /\ LET r == TriggerAlertOp(AlertState, alert_handlers, "system", "critical",
                               message, ManualDetails, now, TRUE, {})
       IN  /\ active_alerts' = r.active
           /\ resolved_alerts' = r.resolved
           /\ alert_files' = r.files
           /\ lastOp' = [op |-> "trigger_alert", alert_type |-> "system",
                         calls |-> r.calls, ret |-> r.ret]
    /\ UNCHANGED <<threads, now, alert_handlers, thresholds, monitor_wake,
                   trackerVars, collectorVars>>

NextArchive ==
    \/ TriggerAlertAnew(<<"m1">>)
    \/ \E id \in KnownAlertIds, m \in ResolutionMessages : ResolveAlert(id, m, TRUE)
    \/ TickMinute

SpecArchive == Init /\ [][NextArchive]_vars

(***************************************************************************)
(* The span histories at their capacity: two categories, each empty, one   *)
(* short of full or full, and the spans started and ended after that.      *)
(***************************************************************************)
\* the tracker after n_api spans of one category and n_db of another, one
\* started every millisecond
InitSpans ==
    \E n_api \in {TraceCap - 1, TraceCap}, n_db \in {0, TraceCap} :
        LET api == TraceRun([traces |-> <<>>, historical_data |-> <<>>],
                            DefaultTrackerThresholds, "api", 1, 1, 0, n_api)
            T == TraceRun(api, DefaultTrackerThresholds, "database_query",
                          1, 1, n_api, n_db)
        IN  /\ traces = T.traces
            /\ historical_data = T.historical_data
            /\ tracker_thresholds = DefaultTrackerThresholds
            /\ now = n_api + n_db
            /\ InitAlertSystem
            /\ InitCollector
            /\ threads = <<>>
            /\ lastOp = [op |-> "init"]

\* start_trace, with an id that no span had: one span a name and millisecond
StartSpan(name, category) ==
    /\ TraceId(name, now) \notin KnownTraceIds
    /\ StartTraceDone(StartTraceOp(TrackerState, name, category, None, None, now),
                      name, category)
    /\ UNCHANGED <<threads, now, alertVars, tracker_thresholds, collectorVars>>

\* the clock of the callers, from the end of the initial spans
TickSpans ==
    /\ now < 2 * TraceCap + TickMs
    /\ now' = now + TickMs
    /\ lastOp' = [op |-> "tick"]
    /\ UNCHANGED <<threads, alertVars, trackerVars, collectorVars>>

NextSpans ==
    \/ \E name \in TraceNames, category \in TraceCategories : StartSpan(name, category)
    \/ \E id \in DictKeys(traces) \cup {TraceId("op", 0)} : EndTrace(id, TRUE)
    \/ TickSpans

SpecSpans == InitSpans /\ [][NextSpans]_vars

(***************************************************************************)
(* The locks.  alert_lock (alerts.py:78) and trace_lock                    *)
(* (performance_tracker.py:49) are re-entrant; the collector has none.     *)
(* `threads` holds the two locks, [owner, depth], beside the threads; a    *)
(* thread is [pc, call, caller, alert_id, message, items, saved, metrics]: *)
(* where it is, the call it is in and the call that one was made from, the *)
(* arguments, what is left of the sweep's snapshot, whether the call has   *)
(* been through _save_alert, and the sweep's local `metrics`.  A thread    *)
(* whose pc is an acquire waits while another thread owns the lock.        *)
(***************************************************************************)
RequestThreads == {"request1", "request2"}
LockThreads == RequestThreads \cup {"monitor"}
FreeLock == [owner |-> "", depth |-> 0]
Frame(pc, call, caller, alert_id, message, items, saved) ==
    [pc |-> pc, call |-> call, caller |-> caller, alert_id |-> alert_id,
     message |-> message, items |-> items, saved |-> saved, metrics |-> <<>>]
IdleFrame == Frame("idle", "", "", <<>>, <<>>, <<>>, FALSE)
SleepFrame == Frame("sleep", "", "", <<>>, <<>>, <<>>, FALSE)

\* a lock that its owner cannot take again (threading.Lock)
MayAcquireOnce(lock, th) == lock.owner = ""

\* threading.RLock: free, or owned by the thread that asks
MayAcquire(lock, th) == lock.owner \in {"", th}
Acquired(lock, th) == [owner |-> th, depth |-> lock.depth + 1]
Released(lock) ==
    IF lock.depth = 1 THEN FreeLock
    ELSE [owner |-> lock.owner, depth |-> lock.depth - 1]

\* trigger_alert with the handlers called before the alert is saved
AfterStepHandlersFirst(call, caller, pc) ==
    CASE call = "trigger_alert" /\ pc = "insert" -> "handlers"
      [] call = "trigger_alert" /\ pc = "handlers" -> "save"
      [] call = "trigger_alert" /\ pc = "save" -> "idle"
      [] call = "resolve_alert" /\ pc = "pop" -> "save"
      [] call = "resolve_alert" /\ pc = "save" ->
            IF caller = "sweep" THEN "sweep_next" ELSE "idle"
      [] OTHER -> "idle"

\* alerts.py:147-161, 174-193: the statement after each step of
\* trigger_alert and of a resolve_alert that found its alert; a
\* resolve_alert called by the sweep returns into the sweep's loop
AfterStep(call, caller, pc) ==
    CASE call = "trigger_alert" /\ pc = "insert" -> "save"
      [] call = "trigger_alert" /\ pc = "save" -> "handlers"
      [] call = "trigger_alert" /\ pc = "handlers" -> "idle"
      [] call = "resolve_alert" /\ pc = "pop" -> "save"
      [] call = "resolve_alert" /\ pc = "save" ->
            IF caller = "sweep" THEN "sweep_next" ELSE "idle"
      [] OTHER -> "idle"

\* the ids in use: active, archived, or of a call in progress
IssuedAlertIds ==
    DictKeys(active_alerts)
      \cup {resolved_alerts[i].id : i \in DOMAIN resolved_alerts}
      \cup {threads[th].alert_id : th \in LockThreads}

\* alerts.py:132-146: trigger_alert is called; the alert is built
CallTriggerAlert(th, message) ==
    /\ threads[th].pc = "idle"
    /\ AlertId("performance", now, message) \notin IssuedAlertIds
    /\ threads' = [threads EXCEPT
                      ![th] = Frame("trigger_acquire", "trigger_alert", "",
                                    AlertId("performance", now, message), message,
                                    <<>>, FALSE)]
    /\ lastOp' = [op |-> "call_trigger_alert", thread |-> th]
    /\ UNCHANGED <<now, alertVars, trackerVars, collectorVars>>

\* alerts.py:147: with self.alert_lock
TriggerAcquire(th) ==
    /\ threads[th].pc = "trigger_acquire"
    /\ MayAcquire(threads["alert_lock"], th)
    /\ threads' = [threads EXCEPT
                      !["alert_lock"] = Acquired(@, th),
                      ![th] = [@ EXCEPT !.pc = "insert"]]
    /\ lastOp' = [op |-> "acquire", thread |-> th]
    /\ UNCHANGED <<now, alertVars, trackerVars, collectorVars>>

\* alerts.py:148: the insert; the with block ends
TriggerInsertRelease(th) ==
    /\ threads[th].pc = "insert"
    /\ LET r == TriggerAlertOp(AlertState, alert_handlers, "performance", "warning",
                               threads[th].message, RecordedDetails("api_request"),
                               now, FALSE, {})
       IN  active_alerts' = r.active
    /\ threads' = [threads EXCEPT
                      !["alert_lock"] = Released(@),
                      ![th] = [@ EXCEPT !.pc = AfterStep(threads[th].call,
                                                         threads[th].caller,
                                                         "insert")]]
    /\ lastOp' = [op |-> "insert", thread |-> th]
    /\ UNCHANGED <<now, resolved_alerts, alert_handlers, thresholds, alert_files,
                   monitor_wake, trackerVars, collectorVars>>

\* alerts.py:221-239: _save_alert writes the alert as it is now
SaveAlertFile(th) ==
    /\ threads[th].pc = "save"
    /\ alert_files' = SaveAlert(alert_files, AlertObject(threads[th].alert_id), TRUE)
    /\ threads' = [threads EXCEPT
                      ![th] = IF AfterStep(threads[th].call, threads[th].caller,
                                           "save") = "idle"
                              THEN IdleFrame
                              ELSE [@ EXCEPT !.pc = AfterStep(threads[th].call,
                                                              threads[th].caller,
                                                              "save"),
                                             !.saved = TRUE]]
    /\ lastOp' = [op |-> "save_alert", thread |-> th, call |-> threads[th].call,
                  caller |-> threads[th].caller,
                  lock_owner |-> threads["alert_lock"].owner]
    /\ UNCHANGED <<now, active_alerts, resolved_alerts, alert_handlers, thresholds,
                   monitor_wake, trackerVars, collectorVars>>

\* alerts.py:153-161: the handlers are called with the alert, the id is
\* returned
InvokeHandlers(th) ==
    /\ threads[th].pc = "handlers"
    /\ lastOp' = [op |-> "handlers", thread |-> th,
                  alert |-> AlertObject(threads[th].alert_id),
                  in_active |-> DictHas(active_alerts, threads[th].alert_id),
                  saved |-> threads[th].saved,
                  calls |-> CallHandlers(alert_handlers["performance"],
                                         AlertObject(threads[th].alert_id), {}),
                  ret |-> threads[th].alert_id]
    /\ threads' = [threads EXCEPT
                      ![th] = IF AfterStep(threads[th].call, threads[th].caller,
                                           "handlers") = "idle"
                              THEN IdleFrame
                              ELSE [@ EXCEPT !.pc = AfterStep(threads[th].call,
                                                              threads[th].caller,
                                                              "handlers")]]
    /\ UNCHANGED <<now, alertVars, trackerVars, collectorVars>>

\* resolve_alert is called by a request thread
CallResolveAlert(th, alert_id, resolution_message) ==
    /\ threads[th].pc = "idle"
    /\ threads' = [threads EXCEPT
                      ![th] = Frame("resolve_acquire", "resolve_alert", "", alert_id,
                                    resolution_message, <<>>, FALSE)]
    /\ lastOp' = [op |-> "call_resolve_alert", thread |-> th]
    /\ UNCHANGED <<now, alertVars, trackerVars, collectorVars>>

\* alerts.py:174: with self.alert_lock
ResolveAcquire(th) ==
    /\ threads[th].pc = "resolve_acquire"
    /\ MayAcquire(threads["alert_lock"], th)
    /\ threads' = [threads EXCEPT
                      !["alert_lock"] = Acquired(@, th),
                      ![th] = [@ EXCEPT !.pc = "pop"]]
    /\ lastOp' = [op |-> "acquire", thread |-> th]
    /\ UNCHANGED <<now, alertVars, trackerVars, collectorVars>>

\* alerts.py:175-187: the alert is moved to the archive, or false is
\* returned; the with block ends
ResolvePopRelease(th) ==
    /\ threads[th].pc = "pop"
    /\ LET r == ResolveAlertOp(AlertState, threads[th].alert_id, threads[th].message,
                               now, FALSE)
           back == IF threads[th].caller = "sweep"
                   THEN [threads[th] EXCEPT !.pc = "sweep_next", !.call = "sweep",
                                            !.caller = "", !.alert_id = <<>>,
                                            !.message = <<>>]
                   ELSE IdleFrame
       IN  /\ active_alerts' = r.active
           /\ resolved_alerts' = r.resolved
           /\ threads' = [threads EXCEPT
                             !["alert_lock"] = Released(@),
                             ![th] = IF r.ret
                                     THEN [@ EXCEPT !.pc = AfterStep(threads[th].call,
                                                                     threads[th].caller,
                                                                     "pop")]
                                     ELSE back]
           /\ lastOp' = [op |-> "pop", thread |-> th, ret |-> r.ret]
    /\ UNCHANGED <<now, alert_handlers, thresholds, alert_files, monitor_wake,
                   trackerVars, collectorVars>>

\* alerts.py:190-193 for the sweep's call: resolve_alert returns into the loop
SweepResume(th) ==
    /\ threads[th].pc = "sweep_next"
    /\ threads[th].call = "resolve_alert"
    /\ threads' = [threads EXCEPT
                      ![th] = [@ EXCEPT !.call = "sweep", !.caller = "",
                                        !.alert_id = <<>>, !.message = <<>>,
                                        !.saved = FALSE]]
    /\ lastOp' = [op |-> "resolve_alert", thread |-> th,
                  alert_id |-> threads[th].alert_id,
                  resolution_message |-> threads[th].message, ret |-> TRUE]
    /\ UNCHANGED <<now, alertVars, trackerVars, collectorVars>>

\* start_trace or end_trace is called by a request thread
CallTrace(th, call) ==
    /\ threads[th].pc = "idle"
    /\ IF call = "start_trace"
       THEN traces = <<>> /\ TraceId("op", now) \notin KnownTraceIds
       ELSE traces # <<>>
    /\ threads' = [threads EXCEPT
                      ![th] = Frame("trace_acquire", call, "", <<>>, <<>>, <<>>, FALSE)]
    /\ lastOp' = [op |-> "call_trace", thread |-> th]
    /\ UNCHANGED <<now, alertVars, trackerVars, collectorVars>>

\* performance_tracker.py:83, 108: with self.trace_lock
TraceAcquire(th) ==
    /\ threads[th].pc = "trace_acquire"
    /\ MayAcquire(threads["trace_lock"], th)
    /\ threads' = [threads EXCEPT
                      !["trace_lock"] = Acquired(@, th),
                      ![th] = [@ EXCEPT !.pc = "trace_body"]]
    /\ lastOp' = [op |-> "acquire", thread |-> th]
    /\ UNCHANGED <<now, alertVars, trackerVars, collectorVars>>

\* performance_tracker.py:84-95, 109-134: the body of start_trace or of
\* end_trace (on the first open span); the with block ends
TraceRelease(th) ==
    /\ threads[th].pc = "trace_body"
    /\ LET r == IF threads[th].call = "start_trace"
                THEN StartTraceOp(TrackerState, "op", "api_request", None, None, now)
                ELSE IF traces = <<>> THEN TrackerState
                ELSE EndTraceOp(TrackerState, tracker_thresholds, traces[1].key,
                                TRUE, now)
       IN  /\ traces' = r.traces
           /\ historical_data' = r.historical_data
    /\ threads' = [threads EXCEPT
                      !["trace_lock"] = Released(@),
                      ![th] = IdleFrame]
    /\ lastOp' = [op |-> "trace", thread |-> th, call |-> threads[th].call]
    /\ UNCHANGED <<now, alertVars, tracker_thresholds, collectorVars>>

\* alerts.py:324-327: the monitor's sleep has ended; the two detectors run.
\* One that triggers an alert takes the alert lock for the insert.
MonitorDetect(th) ==
    /\ threads[th].pc = "sleep"
    /\ now >= monitor_wake
    /\ LET A == CheckErrorRateAlerts(
                    CheckPerformanceAlerts(
                        [active |-> active_alerts, resolved |-> resolved_alerts,
                         files |-> alert_files, triggered |-> <<>>, swept |-> <<>>],
                        alert_handlers, thresholds,
                        GetPerformanceMetrics(historical_data, tracker_thresholds),
                        now, TRUE, {}),
                    alert_handlers, thresholds, GetCurrentMetrics(CollectorState),
                    now, TRUE, {})
       IN  /\ A.triggered # <<>> => MayAcquire(threads["alert_lock"], th)
           /\ active_alerts' = A.active
           /\ alert_files' = A.files
           /\ lastOp' = [op |-> "detect", thread |-> th, triggered |-> A.triggered]
    /\ threads' = [threads EXCEPT
                      ![th] = Frame("sweep_acquire", "sweep", "", <<>>, <<>>, <<>>,
                                    FALSE)]
    /\ UNCHANGED <<now, resolved_alerts, alert_handlers, thresholds, monitor_wake,
                   trackerVars, collectorVars>>

\* alerts.py:341-342: with self.alert_lock; list(self.active_alerts.items())
SweepAcquire(th) ==
    /\ threads[th].pc = "sweep_acquire"
    /\ MayAcquire(threads["alert_lock"], th)
    /\ threads' = [threads EXCEPT
                      !["alert_lock"] = Acquired(@, th),
                      ![th] = [@ EXCEPT !.pc = "sweep_next", !.items = active_alerts]]
    /\ lastOp' = [op |-> "acquire", thread |-> th]
    /\ UNCHANGED <<now, alertVars, trackerVars, collectorVars>>

\* alerts.py:344-352: the conditions under which the sweep resolves an alert
SweepResolves(alert, pm) ==
    /\ alert.type = "performance"
    /\ "category" \in DOMAIN alert.details
    /\ DictHas(pm, alert.details.category)
    /\ DictGet(pm, alert.details.category).p95_ms # NoValue
    /\ DictGet(pm, alert.details.category).p95_ms[1] # 0
    /\ "threshold_ms" \in DOMAIN alert.details
    /\ alert.details.threshold_ms # 0
    /\ DictGet(pm, alert.details.category).p95_ms[1] < alert.details.threshold_ms

\* the call of resolve_alert at alerts.py:353-356, its message formatted
\* from the metrics just read
SweepCall(alert_id, alert, pm, items) ==
    Frame("resolve_acquire", "resolve_alert", "sweep", alert_id,
          <<"Performance recovered", alert.details.category,
            DictGet(pm, alert.details.category).p95_ms[1],
            alert.details.threshold_ms>>,
          items, FALSE)

\* alerts.py:342-347: the loop reaches the next alert of its snapshot; for a
\* performance alert with a category it reads the tracker's metrics (no
\* lock is taken for that), and it passes any other alert
SweepStep(th) ==
    /\ threads[th].pc = "sweep_next"
    /\ threads[th].call = "sweep"
    /\ threads[th].items # <<>>
    /\ threads' =
         [threads EXCEPT
             ![th] = IF /\ threads[th].items[1].val.type = "performance"
                        /\ "category" \in DOMAIN threads[th].items[1].val.details
                     THEN [@ EXCEPT !.pc = "sweep_decide",
                                    !.metrics = GetPerformanceMetrics(
                                                    historical_data,
                                                    tracker_thresholds)]
                     ELSE [@ EXCEPT !.items = Tail(threads[th].items)]]
    /\ lastOp' = [op |-> "sweep_next", thread |-> th]
    /\ UNCHANGED <<now, alertVars, trackerVars, collectorVars>>

\* alerts.py:348-356: with the metrics read, resolve_alert is called for the
\* alert or the alert is passed
SweepDecide(th) ==
    /\ threads[th].pc = "sweep_decide"
    /\ threads' =
         [threads EXCEPT
             ![th] = IF SweepResolves(threads[th].items[1].val, threads[th].metrics)
                     THEN SweepCall(threads[th].items[1].key,
                                    threads[th].items[1].val,
                                    threads[th].metrics,
                                    Tail(threads[th].items))
                     ELSE [@ EXCEPT !.pc = "sweep_next",
                                    !.items = Tail(threads[th].items),
                                    !.metrics = <<>>]]
    /\ lastOp' = [op |-> "sweep_decide", thread |-> th]
    /\ UNCHANGED <<now, alertVars, trackerVars, collectorVars>>

\* alerts.py:341, 333: the snapshot is exhausted; the with block ends and
\* the thread sleeps 60 s
SweepEnd(th) ==
    /\ threads[th].pc = "sweep_next"
    /\ threads[th].call = "sweep"
    /\ threads[th].items = <<>>
    /\ threads' = [threads EXCEPT
                      !["alert_lock"] = Released(@),
                      ![th] = SleepFrame]
    /\ monitor_wake' = now + MonitorSleepMs
    /\ lastOp' = [op |-> "sweep", thread |-> th]
    /\ UNCHANGED <<now, active_alerts, resolved_alerts, alert_handlers, thresholds,
                   alert_files, trackerVars, collectorVars>>

\* the alert system and the tracker after a minute of fast requests, two
\* request threads and the monitor thread
InitLocks ==
    /\ now = MonitorSleepMs
    /\ InitAlertSystem
    /\ LET T == TraceRun([traces |-> <<>>, historical_data |-> <<>>],
                         DefaultTrackerThresholds, "api_request", FastMs, 1000, 0,
                         MinP95Samples)
       IN  /\ traces = T.traces
           /\ historical_data = T.historical_data
           /\ tracker_thresholds = DefaultTrackerThresholds
    /\ InitCollector
    /\ threads = [th \in LockThreads \cup {"alert_lock", "trace_lock"} |->
                    IF th \in RequestThreads THEN IdleFrame
                    ELSE IF th = "monitor" THEN SleepFrame
                    ELSE FreeLock]
    /\ lastOp = [op |-> "init"]

NextLocks ==
    \/ \E th \in RequestThreads :
          \/ CallTriggerAlert(th, <<"m1">>)
          \/ \E id \in DictKeys(active_alerts) \cup {AlertId("system", 0, <<"m1">>)} :
                CallResolveAlert(th, id, <<"fixed">>)
          \/ \E call \in {"start_trace", "end_trace"} : CallTrace(th, call)
          \/ TraceAcquire(th)
          \/ TraceRelease(th)
          \/ InvokeHandlers(th)
    \/ \E th \in LockThreads :
          \/ TriggerAcquire(th)
          \/ TriggerInsertRelease(th)
          \/ ResolveAcquire(th)
          \/ ResolvePopRelease(th)
          \/ SaveAlertFile(th)
    \/ MonitorDetect("monitor")
    \/ SweepAcquire("monitor")
    \/ SweepStep("monitor")
    \/ SweepDecide("monitor")
    \/ SweepEnd("monitor")
    \/ SweepResume("monitor")

SpecLocks == InitLocks /\ [][NextLocks]_vars

\* The scheduler runs every thread that is not blocked: weak fairness of the
\* steps a thread takes between acquiring a lock and releasing it.  No
\* fairness is assumed of the lock itself: which waiting thread gets a
\* released lock is not determined.
HolderStep(th) ==
    \/ TriggerInsertRelease(th)
    \/ ResolveAcquire(th)
    \/ ResolvePopRelease(th)
    \/ SaveAlertFile(th)
    \/ SweepStep(th)
    \/ SweepDecide(th)
    \/ SweepEnd(th)
    \/ SweepResume(th)
    \/ TraceRelease(th)

FairLocks ==
    /\ SpecLocks
    /\ \A th \in LockThreads : WF_vars(HolderStep(th))

(***************************************************************************)
(* MetricsCollector's writer thread (_background_metrics_writer).  The     *)
(* entry "writer" of `threads` holds the thread: whether it runs, the time *)
(* its sleep ends and the errors it has logged; the entry "metrics_dir"    *)
(* holds the files written: file name -> content.                          *)
(***************************************************************************)
MetricsWriterSleepMs == 300000     \* metrics_collector.py:219  time.sleep(300)
MetricsWriterRetryMs == 60000      \* metrics_collector.py:223  time.sleep(60)
RecentRequests == 3                \* records in a file: 100 (metrics_collector.py:210), scaled
MaxWriterMinutes == 6              \* minutes the writer's clock runs
MaxBacklog == 1                    \* records in the history beyond those written

\* metrics_collector.py:204  f"metrics_{now.strftime('%Y%m%d_%H%M%S')}.json"
MetricsFileName(t) == <<S("metrics"), SecondStamp(t)>>

\* the outcomes of lines 213-214: the file is written, open() raises, or
\* json.dump raises after open() has truncated the file
WriteOutcomes == {"written", "open_raises", "dump_raises"}

\* metrics_collector.py:210: self.historical_metrics[-100:] if
\* self.historical_metrics else [], with RecentRequests for 100
RecentOf(records) ==
    IF records = <<>> THEN <<>>
    ELSE IF Len(records) > RecentRequests
    THEN SubSeq(records, Len(records) - RecentRequests + 1, Len(records))
    ELSE records

\* the loop body with the retry after the full interval
MetricsWriterBodyLongRetry(W, files, C, t, outcome) ==
    LET metrics == [aggregates |-> GetCurrentMetrics(C),
                    timestamp |-> t,
                    recent_requests |-> RecentOf(C.historical_metrics)]
    IN  IF outcome = "written"
        THEN [writer |-> [W EXCEPT !.wake = t + MetricsWriterSleepMs],
              files |-> DictPut(files, MetricsFileName(t), metrics),
              C |-> C]
        ELSE [writer |-> [W EXCEPT !.wake = t + MetricsWriterSleepMs,
                                   !.logged = @ + 1],
              files |-> IF outcome = "dump_raises"
                        THEN DictPut(files, MetricsFileName(t), <<>>)
                        ELSE files,
              C |-> C]

\* the loop body without the except clause: the exception ends the thread
MetricsWriterBodyUncaught(W, files, C, t, outcome) ==
    LET metrics == [aggregates |-> GetCurrentMetrics(C),
                    timestamp |-> t,
                    recent_requests |-> RecentOf(C.historical_metrics)]
    IN  IF outcome = "written"
        THEN [writer |-> [W EXCEPT !.wake = t + MetricsWriterSleepMs],
              files |-> DictPut(files, MetricsFileName(t), metrics),
              C |-> C]
        ELSE [writer |-> [W EXCEPT !.running = FALSE],
              files |-> IF outcome = "dump_raises"
                        THEN DictPut(files, MetricsFileName(t), <<>>)
                        ELSE files,
              C |-> C]

\* metrics_collector.py:201-223: one pass of the loop body.  The file holds
\* the aggregates of get_current_metrics, the timestamp and the last
\* RecentRequests records of the history (all of a shorter history, [] for
\* an empty one); after the write the thread sleeps 300 s.  An exception is
\* logged and the thread sleeps 60 s.
MetricsWriterBody(W, files, C, t, outcome) ==
    LET metrics == [aggregates |-> GetCurrentMetrics(C),
                    timestamp |-> t,
                    recent_requests |-> RecentOf(C.historical_metrics)]
    IN  IF outcome = "written"
        THEN [writer |-> [W EXCEPT !.wake = t + MetricsWriterSleepMs],
              files |-> DictPut(files, MetricsFileName(t), metrics),
              C |-> C]
        ELSE [writer |-> [W EXCEPT !.wake = t + MetricsWriterRetryMs,
                                   !.logged = @ + 1],
              files |-> IF outcome = "dump_raises"
                        THEN DictPut(files, MetricsFileName(t), <<>>)
                        ELSE files,
              C |-> C]

\* metrics_collector.py:200: while True.  The thread's sleep has ended.
MetricsWriterLoop(outcome) ==
    /\ threads["writer"].running
    /\ now >= threads["writer"].wake
    /\ LET r == MetricsWriterBody(threads["writer"], threads["metrics_dir"],
                                  CollectorState, now, outcome)
       IN  /\ threads' = [threads EXCEPT !["writer"] = r.writer,
                                         !["metrics_dir"] = r.files]
           /\ SetCollector(r.C)
    /\ lastOp' = [op |-> "metrics_writer", outcome |-> outcome, t |-> now]
    /\ UNCHANGED <<now, alertVars, trackerVars>>

\* a minute passes while the writer sleeps
TickWriter ==
    /\ now < MaxWriterMinutes * 60000
    /\ threads["writer"].running => now < threads["writer"].wake
    /\ now' = now + 60000
    /\ lastOp' = [op |-> "tick"]
    /\ UNCHANGED <<threads, alertVars, trackerVars, collectorVars>>

\* a request thread: a request starts
RequestArrives ==
    /\ ~DictHas(active_contexts, "r2")
    /\ SetCollector(StartRequestOp(CollectorState, "r2", "u1", "s1", now))
    /\ lastOp' = [op |-> "start_request", request_id |-> "r2", ret |-> "r2"]
    /\ UNCHANGED <<threads, now, alertVars, trackerVars>>

\* the collector after no request, after one, and after more requests than
\* a file holds; the writer thread has just been started
InitWriter ==
    \E n \in {0, 1, RecentRequests + MaxBacklog} :
        LET served == ServedRequests([active_contexts |-> <<>>,
                                      historical_metrics |-> <<>>,
                                      total_requests |-> 0,
                                      successful_requests |-> 0,
                                      failed_requests |-> 0,
                                      total_latency_ms |-> 0,
                                      tool_usage |-> <<>>,
                                      agent_usage |-> <<>>,
                                      guardrail_blocks |-> 0],
                                     [i \in 1..n |-> 1], 1)
        IN  /\ active_contexts = served.active_contexts
            /\ historical_metrics = served.historical_metrics
            /\ total_requests = served.total_requests
            /\ successful_requests = served.successful_requests
            /\ failed_requests = served.failed_requests
            /\ total_latency_ms = served.total_latency_ms
            /\ tool_usage = served.tool_usage
            /\ agent_usage = served.agent_usage
            /\ guardrail_blocks = served.guardrail_blocks
    /\ now = 0
    /\ InitAlertSystem
    /\ InitTracker
    /\ threads = [th \in {"writer", "metrics_dir"} |->
                    IF th = "writer"
                    THEN [running |-> TRUE, wake |-> 0, logged |-> 0]
                    ELSE <<>>]
    /\ lastOp = [op |-> "init"]

NextWriter ==
    \/ \E outcome \in WriteOutcomes : MetricsWriterLoop(outcome)
    \/ TickWriter
    \/ RequestArrives

SpecWriter == InitWriter /\ [][NextWriter]_vars

\* The thread is scheduled and the clock runs.  Whether the loop body can
\* start does not depend on the outcome of its write.
FairWriter ==
    /\ SpecWriter
    /\ WF_vars(TickWriter)
    /\ WF_vars(MetricsWriterLoop("open_raises"))

(***************************************************************************)
(* Readers beside a writer.  A worker thread runs complete_request and     *)
(* end_trace statement by statement; a reader thread calls                 *)
(* get_current_metrics, get_performance_metrics and get_active_alerts      *)
(* between any two of these statements.  The collector has no lock, and    *)
(* get_performance_metrics does not take trace_lock, so neither reader     *)
(* waits for the worker; get_active_alerts copies the active alerts under  *)
(* alert_lock, which trigger_alert and resolve_alert hold for their        *)
(* changes.  The worker's entry of `threads` holds its position, the state *)
(* the call started from (before), the state it ends in (after) and the    *)
(* span it moves; the reader's entry holds its position and the size of    *)
(* the dict its loop iterates over.                                        *)
(***************************************************************************)
IdleWorker == [pc |-> "idle", before |-> <<>>, after |-> <<>>, item |-> <<>>]
IdleReader == [pc |-> "idle", size |-> 0]
Instant == [C |-> CollectorState, hd |-> historical_data]

\* the states of the instants between operations nearest to now
Instants ==
    IF threads["worker"].pc = "idle" THEN {Instant}
    ELSE {threads["worker"].before, threads["worker"].after}

WorkerAt(pc) == threads["worker"].pc = pc
WorkerGoes(pc) == threads' = [threads EXCEPT !["worker"].pc = pc]

\* start_request, start_trace, trigger_alert and resolve_alert, each in one
\* step
WorkerStartRequest(request_id) ==
    /\ WorkerAt("idle")
    /\ ~DictHas(active_contexts, request_id)
    /\ StartRequest(request_id)

WorkerStartTrace(category) ==
    /\ WorkerAt("idle")
    /\ TraceId(category, now) \notin KnownTraceIds
    /\ StartTraceDone(StartTraceOp(TrackerState, category, category, None, None, now),
                      category, category)
    /\ UNCHANGED <<threads, now, alertVars, tracker_thresholds, collectorVars>>

WorkerTriggerAlert ==
    /\ WorkerAt("idle")
    /\ active_alerts = <<>>
    /\ TriggerAlert("system", "critical", <<"m1">>, TRUE, {})

WorkerResolveAlert(alert_id) ==
    /\ WorkerAt("idle")
    /\ ResolveAlert(alert_id, <<"m2">>, TRUE)

\* metrics_collector.py:136: the id is active; complete_request goes on
WorkerCompleteBegin(request_id, success) ==
    /\ WorkerAt("idle")
    /\ DictHas(active_contexts, request_id)
    /\ threads' =
         [threads EXCEPT
             !["worker"] =
                 [pc |-> "pop", before |-> Instant,
                  after |-> [C |-> CompleteRequestOp(CollectorState, request_id,
                                                     success, now).C,
                             hd |-> historical_data],
                  item |-> <<>>]]
    /\ lastOp' = [op |-> "complete_request_begin", request_id |-> request_id]
    /\ UNCHANGED <<now, alertVars, trackerVars, collectorVars>>

\* metrics_collector.py:140-141: the context is popped and completed
WorkerCompletePop ==
    /\ WorkerAt("pop")
    /\ active_contexts' = threads["worker"].after.C.active_contexts
    /\ WorkerGoes("count")
    /\ lastOp' = [op |-> "complete_request_pop"]
    /\ UNCHANGED <<now, alertVars, trackerVars, historical_metrics, total_requests,
                   successful_requests, failed_requests, total_latency_ms,
                   tool_usage, agent_usage, guardrail_blocks>>

\* metrics_collector.py:144-149: the counters and the latency sum
WorkerCompleteCount ==
    /\ WorkerAt("count")
    /\ successful_requests' = threads["worker"].after.C.successful_requests
    /\ failed_requests' = threads["worker"].after.C.failed_requests
    /\ total_latency_ms' = threads["worker"].after.C.total_latency_ms
    /\ WorkerGoes("append")
    /\ lastOp' = [op |-> "complete_request_count"]
    /\ UNCHANGED <<now, alertVars, trackerVars, active_contexts, historical_metrics,
                   total_requests, tool_usage, agent_usage, guardrail_blocks>>

\* metrics_collector.py:152-169: the record is appended to the history
WorkerCompleteAppend ==
    /\ WorkerAt("append")
    /\ LET final == threads["worker"].after.C.historical_metrics
       IN  historical_metrics' = Append(historical_metrics, final[Len(final)])
    /\ WorkerGoes("trim")
    /\ lastOp' = [op |-> "complete_request_append"]
    /\ UNCHANGED <<now, alertVars, trackerVars, active_contexts, total_requests,
                   successful_requests, failed_requests, total_latency_ms,
                   tool_usage, agent_usage, guardrail_blocks>>

\* metrics_collector.py:170-173: the oldest record leaves a history above
\* its capacity; the context is returned
WorkerCompleteTrim ==
    /\ WorkerAt("trim")
    /\ historical_metrics' = IF Len(historical_metrics) > MaxHistorical
                             THEN Tail(historical_metrics)
                             ELSE historical_metrics
    /\ threads' = [threads EXCEPT !["worker"] = IdleWorker]
    /\ lastOp' = [op |-> "complete_request"]
    /\ UNCHANGED <<now, alertVars, trackerVars, active_contexts, total_requests,
                   successful_requests, failed_requests, total_latency_ms,
                   tool_usage, agent_usage, guardrail_blocks>>

\* performance_tracker.py:108-110: trace_lock is taken, the id is open
WorkerEndBegin(trace_id) ==
    /\ WorkerAt("idle")
    /\ DictHas(traces, trace_id)
    /\ LET r == EndTraceOp(TrackerState, tracker_thresholds, trace_id, TRUE, now)
       IN  threads' =
             [threads EXCEPT
                 !["worker"] =
                     [pc |-> "trace_pop", before |-> Instant,
                      after |-> [C |-> CollectorState, hd |-> r.historical_data],
                      item |-> [trace_id |-> trace_id, trace |-> r.ret[1]]]]
    /\ lastOp' = [op |-> "end_trace_begin", trace_id |-> trace_id]
    /\ UNCHANGED <<now, alertVars, trackerVars, collectorVars>>

\* performance_tracker.py:112-118: the span is popped and completed
WorkerEndPop ==
    /\ WorkerAt("trace_pop")
    /\ traces' = DictPop(traces, threads["worker"].item.trace_id)
    /\ WorkerGoes(IF DictHas(historical_data, threads["worker"].item.trace.category)
                  THEN "trace_append" ELSE "trace_create")
    /\ lastOp' = [op |-> "end_trace_pop"]
    /\ UNCHANGED <<now, alertVars, historical_data, tracker_thresholds, collectorVars>>

\* performance_tracker.py:122-123: the category gets its list
WorkerEndCreate ==
    /\ WorkerAt("trace_create")
    /\ historical_data' = DictPut(historical_data,
                                  threads["worker"].item.trace.category, <<>>)
    /\ WorkerGoes("trace_append")
    /\ lastOp' = [op |-> "end_trace_create"]
    /\ UNCHANGED <<now, alertVars, traces, tracker_thresholds, collectorVars>>

\* performance_tracker.py:125: the span is appended
WorkerEndAppend ==
    /\ WorkerAt("trace_append")
    /\ LET category == threads["worker"].item.trace.category
       IN  historical_data' = DictPut(historical_data, category,
                                      Append(DictGet(historical_data, category),
                                             threads["worker"].item.trace))
    /\ WorkerGoes("trace_trim")
    /\ lastOp' = [op |-> "end_trace_append"]
    /\ UNCHANGED <<now, alertVars, traces, tracker_thresholds, collectorVars>>

\* performance_tracker.py:128-134: the oldest span leaves a list above its
\* capacity; the span is returned and the lock released
WorkerEndTrim ==
    /\ WorkerAt("trace_trim")
    /\ LET category == threads["worker"].item.trace.category
           spans == DictGet(historical_data, category)
       IN  historical_data' = IF Len(spans) > TraceCap
                              THEN DictPut(historical_data, category, Tail(spans))
                              ELSE historical_data
    /\ threads' = [threads EXCEPT !["worker"] = IdleWorker]
    /\ lastOp' = [op |-> "end_trace"]
    /\ UNCHANGED <<now, alertVars, traces, tracker_thresholds, collectorVars>>

\* metrics_collector.py:175-196: get_current_metrics reads the fields as
\* they are
ReadCurrentMetrics ==
    /\ threads["reader"].pc = "idle"
    /\ lastOp' = [op |-> "get_current_metrics", raised |-> FALSE,
                  ret |-> GetCurrentMetrics(CollectorState),
                  instants |-> Instants]
    /\ UNCHANGED <<threads, now, alertVars, trackerVars, collectorVars>>

\* performance_tracker.py:156-158: get_performance_metrics starts its loop
\* over historical_data.items()
ReadPerformanceBegin ==
    /\ threads["reader"].pc = "idle"
    /\ historical_data # <<>>
    /\ threads' = [threads EXCEPT
                      !["reader"] = [pc |-> "iterating",
                                     size |-> Len(historical_data)]]
    /\ lastOp' = [op |-> "get_performance_metrics_begin"]
    /\ UNCHANGED <<now, alertVars, trackerVars, collectorVars>>

\* performance_tracker.py:158-178: the loop goes on.  A dict that has
\* changed size since the loop began makes the iterator raise RuntimeError;
\* otherwise the metrics are computed from the lists as they are.
ReadPerformanceEnd ==
    /\ threads["reader"].pc = "iterating"
    /\ threads' = [threads EXCEPT !["reader"] = IdleReader]
    /\ lastOp' = IF Len(historical_data) # threads["reader"].size
                 THEN [op |-> "get_performance_metrics", raised |-> TRUE,
                       ret |-> <<>>, instants |-> Instants]
                 ELSE [op |-> "get_performance_metrics", raised |-> FALSE,
                       ret |-> GetPerformanceMetrics(historical_data,
                                                     tracker_thresholds),
                       instants |-> Instants]
    /\ UNCHANGED <<now, alertVars, trackerVars, collectorVars>>

\* alerts.py:207-219: get_active_alerts copies the values under alert_lock
ReadActiveAlerts ==
    /\ threads["reader"].pc = "idle"
    /\ lastOp' = [op |-> "get_active_alerts", raised |-> FALSE,
                  ret |-> GetActiveAlerts(active_alerts, None, None),
                  instants |-> Instants]
    /\ UNCHANGED <<threads, now, alertVars, trackerVars, collectorVars>>

\* a tracker whose api_request list is at its capacity, a collector and an
\* alert system just constructed
InitReaders ==
    /\ now = MonitorSleepMs
    /\ InitAlertSystem
    /\ LET T == TraceRun([traces |-> <<>>, historical_data |-> <<>>],
                         DefaultTrackerThresholds, "api_request", FastMs, 1000, 0,
                         TraceCap)
       IN  /\ traces = T.traces
           /\ historical_data = T.historical_data
           /\ tracker_thresholds = DefaultTrackerThresholds
    /\ InitCollector
    /\ threads = [th \in {"worker", "reader"} |->
                    IF th = "worker" THEN IdleWorker ELSE IdleReader]
    /\ lastOp = [op |-> "init"]

NextReaders ==
    \/ \E request_id \in {"r1", "r2"} :
          \/ WorkerStartRequest(request_id)
          \/ \E success \in BOOLEAN : WorkerCompleteBegin(request_id, success)
    \/ WorkerCompletePop
    \/ WorkerCompleteCount
    \/ WorkerCompleteAppend
    \/ WorkerCompleteTrim
    \/ \E category \in Categories :
          \/ WorkerStartTrace(category)
          \/ WorkerEndBegin(TraceId(category, now))
    \/ WorkerEndPop
    \/ WorkerEndCreate
    \/ WorkerEndAppend
    \/ WorkerEndTrim
    \/ WorkerTriggerAlert
    \/ \E alert_id \in DictKeys(active_alerts) : WorkerResolveAlert(alert_id)
    \/ ReadCurrentMetrics
    \/ ReadPerformanceBegin
    \/ ReadPerformanceEnd
    \/ ReadActiveAlerts

SpecReaders == InitReaders /\ [][NextReaders]_vars

(***************************************************************************)
(* Properties.                                                             *)
(***************************************************************************)
ActiveIds == DictKeys(active_alerts)
ResolvedIds == {resolved_alerts[i].id : i \in DOMAIN resolved_alerts}
SameHour(t1, t2) == DayStamp(t1) = DayStamp(t2) /\ HourStamp(t1) = HourStamp(t2)
\* the alerts of the two detectors carry the detector's details
ByPerformanceDetector(alert) ==
    alert.type = "performance" /\ "p95_ms" \in DOMAIN alert.details
ByErrorRateDetector(alert) ==
    alert.type = "error_rate" /\ "failed_requests" \in DOMAIN alert.details

\* C1: while the monitor thread runs cycles within one hour and a detector's
\* condition keeps holding, the active set never holds more than one alert of
\* that detector per deduplication key: category and hour for the
\* performance detector, hour for the error-rate detector.
OneActiveAlertPerDedupKey ==
    \A i, j \in DOMAIN active_alerts :
        LET a == active_alerts[i].val
            b == active_alerts[j].val
        IN  /\ (ByPerformanceDetector(a) /\ ByPerformanceDetector(b)
                  /\ a.details.category = b.details.category
                  /\ SameHour(a.timestamp, b.timestamp)) => i = j
            /\ (ByErrorRateDetector(a) /\ ByErrorRateDetector(b)
                  /\ SameHour(a.timestamp, b.timestamp)) => i = j

\* C2: in every reachable state no alert id is both a key of the active set
\* and the id of an entry of the resolved list.
ActiveResolvedDisjoint == ActiveIds \cap ResolvedIds = {}

\* C3: no step makes an id of the resolved list active again, and a
\* trigger_alert taken after a resolution returns an id that is not the id
\* of any resolved alert.
ResolvedNeverActiveAgain ==
    [][/\ \A id \in ResolvedIds : id \notin DictKeys(active_alerts')
       /\ lastOp'.op = "trigger_alert" => lastOp'.ret \notin ResolvedIds]_vars

\* C4: the id X returned by trigger_alert is in get_active_alerts(); a
\* resolve_alert(X, msg) of the active X returns true and archives X with
\* status resolved and message msg; from then on, after every step,
\* get_active_alerts() holds no alert with id X and the resolved list holds X
\* with status resolved.
IdsOf(alerts) == {alerts[i].id : i \in DOMAIN alerts}
Archived(resolved, id) ==
    \E i \in DOMAIN resolved :
        resolved[i].id = id /\ resolved[i].status = "resolved"
TriggerResolveLifecycle ==
    [][/\ lastOp'.op = "trigger_alert"
            => lastOp'.ret \in IdsOf(GetActiveAlerts(active_alerts', None, None))
       /\ (lastOp'.op = "resolve_alert" /\ lastOp'.alert_id \in ActiveIds)
            => /\ lastOp'.ret = TRUE
               /\ resolved_alerts' # <<>>
               /\ LET last == resolved_alerts'[Len(resolved_alerts')]
                  IN  /\ last.id = lastOp'.alert_id
                      /\ last.status = "resolved"
                      /\ last.resolution_message = lastOp'.resolution_message
       /\ \A id \in ResolvedIds :
            /\ id \notin IdsOf(GetActiveAlerts(active_alerts', None, None))
            /\ Archived(resolved_alerts', id)]_vars

\* C5: resolve_alert with an id that is not active (never triggered, or
\* resolved before) returns false and leaves the active set, the resolved
\* list and the persisted records as they were; in particular a second
\* resolve of one id adds no archive entry.
ResolveInactiveIsNoop ==
    [][(lastOp'.op = "resolve_alert" /\ lastOp'.alert_id \notin ActiveIds)
          => /\ lastOp'.ret = FALSE
             /\ UNCHANGED <<active_alerts, resolved_alerts, alert_files>>]_vars
\* a second resolve of an archived id has just returned false
SecondResolveRejected ==
    /\ lastOp.op = "resolve_alert"
    /\ lastOp.ret = FALSE
    /\ lastOp.alert_id \in ResolvedIds
    /\ lastOp.alert_id \notin ActiveIds

\* C6: get_active_alerts(type, min_severity) returns, each once, exactly the
\* active alerts that have the given type (when given) and a severity at or
\* above min_severity (when given) in the order info < warning < error <
\* critical; with no filter it returns the whole active set; it changes
\* nothing of the alert system.
SeverityRank(severity) ==
    CASE severity = "info" -> 1
      [] severity = "warning" -> 2
      [] severity = "error" -> 3
      [] severity = "critical" -> 4
Wanted(alert, alert_type, min_severity) ==
    /\ alert_type # None => alert.type = alert_type
    /\ min_severity # None
          => SeverityRank(alert.severity) >= SeverityRank(min_severity)
QueryReturnsExactlyTheMatches ==
    [][lastOp'.op = "get_active_alerts"
          => /\ UNCHANGED alertVars
             /\ \A i \in DOMAIN active_alerts :
                    LET alert == active_alerts[i].val
                    IN  Wanted(alert, lastOp'.alert_type, lastOp'.min_severity)
                            <=> \E k \in DOMAIN lastOp'.ret : lastOp'.ret[k] = alert
             /\ \A k \in DOMAIN lastOp'.ret :
                    /\ \E i \in DOMAIN active_alerts :
                            active_alerts[i].val = lastOp'.ret[k]
                    /\ \A l \in DOMAIN lastOp'.ret :
                            lastOp'.ret[l].id = lastOp'.ret[k].id => l = k
             /\ (lastOp'.alert_type = None /\ lastOp'.min_severity = None)
                    => lastOp'.ret = DictValues(active_alerts)]_vars
\* a query by type and severity has kept one alert and dropped another of
\* the same type for its severity
QueryFilteredBySeverity ==
    /\ lastOp.op = "get_active_alerts"
    /\ lastOp.alert_type = "system"
    /\ lastOp.min_severity = "error"
    /\ Len(lastOp.ret) = 1
    /\ \E i \in DOMAIN active_alerts :
          /\ active_alerts[i].val.type = "system"
          /\ active_alerts[i].val.severity = "warning"
    /\ \E i \in DOMAIN active_alerts :
          /\ active_alerts[i].val.type = "system"
          /\ active_alerts[i].val.severity = "error"

\* C7: trigger_alert calls every handler registered for the alert's type
\* exactly once, in registration order, with the new alert, whether or not
\* earlier handlers raise; it returns the alert's id and the alert is active.
EveryHandlerCalledOnce ==
    [][lastOp'.op = "trigger_alert"
          => /\ [k \in DOMAIN lastOp'.calls |-> lastOp'.calls[k].handler]
                    = alert_handlers[lastOp'.alert_type]
             /\ \A k \in DOMAIN lastOp'.calls :
                    lastOp'.calls[k].alert_id = lastOp'.ret
             /\ DictHas(active_alerts', lastOp'.ret)
             /\ DictGet(active_alerts', lastOp'.ret).status = "active"]_vars
\* a handler raised and a handler registered after it was still called
HandlerCalledAfterRaise ==
    /\ lastOp.op = "trigger_alert"
    /\ \E k \in DOMAIN lastOp.calls :
          /\ lastOp.calls[k].raised
          /\ k < Len(lastOp.calls)
    /\ DictHas(active_alerts, lastOp.ret)

\* C8: complete_request(id, success) for an active id removes id from the
\* active contexts, appends exactly one record (of id, with the success flag)
\* to the history, dropping the oldest at the cap, raises successful + failed
\* by exactly one, on the counter the flag names, and leaves total_requests.
CompleteCountsOnce ==
    [][(lastOp'.op = "complete_request"
          /\ DictHas(active_contexts, lastOp'.request_id))
          => /\ ~DictHas(active_contexts', lastOp'.request_id)
             /\ lastOp'.ret # <<>>
             /\ historical_metrics' # <<>>
             /\ LET n == Len(historical_metrics')
                    kept == SubSeq(historical_metrics', 1, n - 1)
                IN  /\ historical_metrics'[n].request_id = lastOp'.request_id
                    /\ historical_metrics'[n].success = lastOp'.success
                    /\ IF Len(historical_metrics) < MaxHistorical
                       THEN kept = historical_metrics
                       ELSE kept = Tail(historical_metrics)
             /\ successful_requests' + failed_requests'
                    = successful_requests + failed_requests + 1
             /\ IF lastOp'.success
                THEN /\ successful_requests' = successful_requests + 1
                     /\ failed_requests' = failed_requests
                ELSE /\ failed_requests' = failed_requests + 1
                     /\ successful_requests' = successful_requests
             /\ total_requests' = total_requests]_vars
\* a request that recorded something has just been completed as failed
CompletedAfterRecords ==
    /\ lastOp.op = "complete_request"
    /\ lastOp.ret # <<>>
    /\ ~lastOp.success
    /\ Recorded(lastOp.ret[1]) > 0
    /\ failed_requests = 1
    /\ ~DictHas(active_contexts, lastOp.request_id)

\* C9: complete_request with an id that is not active, such as a second
\* completion of one request, returns None and changes no counter, no
\* history and no active context.
SecondCompleteIsNoop ==
    [][(lastOp'.op = "complete_request"
          /\ ~DictHas(active_contexts, lastOp'.request_id))
          => /\ lastOp'.ret = <<>>
             /\ UNCHANGED collectorVars]_vars
\* a request already in the history has just been completed again
CompletedTwice ==
    /\ lastOp.op = "complete_request"
    /\ lastOp.ret = <<>>
    /\ \E i \in DOMAIN historical_metrics :
          historical_metrics[i].request_id = lastOp.request_id
    /\ ~DictHas(active_contexts, lastOp.request_id)

\* C10: record_llm_call, record_tool_call, record_agent_call,
\* record_guardrail_block and record_error with an id that is not active
\* change nothing of the collector: no context, no counter, no aggregate.
RecordOps ==
    {"record_llm_call", "record_tool_call", "record_agent_call",
     "record_guardrail_block", "record_error"}
RecordOnInactiveIsNoop ==
    [][(lastOp'.op \in RecordOps
          /\ ~DictHas(active_contexts, lastOp'.request_id))
          => UNCHANGED collectorVars]_vars
\* a tool call has just been recorded against a request completed before,
\* while another request is active
RecordedAfterCompletion ==
    /\ lastOp.op = "record_tool_call"
    /\ ~DictHas(active_contexts, lastOp.request_id)
    /\ \E i \in DOMAIN historical_metrics :
          historical_metrics[i].request_id = lastOp.request_id
    /\ active_contexts # <<>>

\* C11: the history never holds more than max_historical records and holds
\* the most recent completions in completion order: it has
\* min(completions, max_historical) records, a completion appends its record
\* at the end after the oldest is dropped from a full history, and no other
\* call touches the history.
Min(a, b) == IF a <= b THEN a ELSE b
LastRecords(records, n) ==
    SubSeq(records, Len(records) - Min(Len(records), n) + 1, Len(records))
CountOf(counter, k) == IF DictHas(counter, k) THEN DictGet(counter, k) ELSE 0
CurrentMetricsIsPureRead ==
    [][lastOp'.op = "get_current_metrics"
          => /\ UNCHANGED collectorVars
             /\ lastOp'.ret.active_requests = Cardinality(DictKeys(active_contexts))
             /\ lastOp'.ret.total_requests = total_requests]_vars
\* metrics were read while one request was in flight and another had been
\* replaced or completed
MetricsReadInFlight ==
    /\ lastOp.op = "get_current_metrics"
    /\ lastOp.ret.active_requests = 1
    /\ total_requests = 2

\* C14: start_request with an id that is active replaces the context by a
\* fresh one (no calls, no tokens, no blocks, no errors), raises
\* total_requests by one and leaves exactly one context for the id, the
\* other contexts untouched.
RestartReplacesContext ==
    [][(lastOp'.op = "start_request"
          /\ DictHas(active_contexts, lastOp'.request_id))
          => /\ lastOp'.ret = lastOp'.request_id
             /\ total_requests' = total_requests + 1
             /\ Cardinality({i \in DOMAIN active_contexts' :
                                active_contexts'[i].key = lastOp'.request_id}) = 1
             /\ LET context == DictGet(active_contexts', lastOp'.request_id)
                IN  /\ context.request_id = lastOp'.request_id
                    /\ context.llm_call_count = 0
                    /\ context.llm_tokens_in = 0
                    /\ context.llm_tokens_out = 0
                    /\ context.tool_calls = <<>>
                    /\ context.agent_calls = <<>>
                    /\ context.guardrail_blocks = 0
                    /\ context.errors = <<>>
                    /\ context.end_time = NoValue
             /\ DictKeys(active_contexts') = DictKeys(active_contexts)
             /\ \A id \in DictKeys(active_contexts) \ {lastOp'.request_id} :
                    DictGet(active_contexts', id) = DictGet(active_contexts, id)]_vars
\* an id was started again after its first context had recorded a tool call
RestartedAfterRecord ==
    /\ lastOp.op = "start_request"
    /\ total_requests = 2
    /\ historical_metrics = <<>>
    /\ Len(active_contexts) = 1
    /\ active_contexts[1].key = lastOp.request_id
    /\ active_contexts[1].val.errors = <<>>
    /\ tool_usage # <<>>

\* C15: end_trace with a trace id that is not open (never started, or ended
\* before) returns None, logs no threshold warning and leaves the open spans
\* and every category's history as they were; a second end_trace of one id
\* adds no history entry.
EndUnknownTraceIsNoop ==
    [][(lastOp'.op = "end_trace" /\ ~DictHas(traces, lastOp'.trace_id))
          => /\ lastOp'.ret = <<>>
             /\ ~lastOp'.warned
             /\ UNCHANGED <<traces, historical_data>>]_vars
\* a recorded span's id has just been ended a second time
TraceEndedTwice ==
    /\ lastOp.op = "end_trace"
    /\ lastOp.ret = <<>>
    /\ \E i \in DOMAIN historical_data :
          \E k \in DOMAIN historical_data[i].val :
              TraceId(historical_data[i].val[k].name,
                      historical_data[i].val[k].start_time) = lastOp.trace_id
    /\ RecordedSpans = 1

\* C16: no span is both open and recorded; an open span has no end, a
\* recorded span has end_time, duration_ms and metadata.success set and is in
\* the history of its own category; a span that is open stays open, as it
\* is, until the end_trace of its id, which records it as the last entry of
\* its category; no step changes a recorded span.
OpenSpans == {traces[i].val : i \in DOMAIN traces}
SpansOf(hd, category) == IF DictHas(hd, category) THEN DictGet(hd, category) ELSE <<>>
SpansWellFormed ==
    /\ \A i \in DOMAIN traces :
          /\ traces[i].val.end_time = NoValue
          /\ traces[i].val.duration_ms = NoValue
    /\ \A j \in DOMAIN historical_data :
          \A k \in DOMAIN historical_data[j].val :
              LET span == historical_data[j].val[k]
              IN  /\ span \notin OpenSpans
                  /\ span.category = historical_data[j].key
                  /\ span.end_time # NoValue
                  /\ span.duration_ms # NoValue
                  /\ "success" \in DOMAIN span.metadata
OpenUntilEnded ==
    \A i \in DOMAIN traces :
        LET id == traces[i].key
            span == traces[i].val
        IN  IF lastOp'.op = "end_trace" /\ lastOp'.trace_id = id
            THEN /\ ~DictHas(traces', id)
                 /\ LET recorded == SpansOf(historical_data', span.category)
                    IN  /\ recorded # <<>>
                        /\ recorded[Len(recorded)].name = span.name
                        /\ recorded[Len(recorded)].start_time = span.start_time
                        /\ recorded[Len(recorded)].end_time = Some(now)
                        /\ recorded[Len(recorded)].duration_ms
                              = Some(now - span.start_time)
                        /\ recorded[Len(recorded)].metadata.success
                              = lastOp'.success
            ELSE DictHas(traces', id) /\ DictGet(traces', id) = span
RecordedSpansKept ==
    \A j \in DOMAIN historical_data :
        LET before == historical_data[j].val
            after == SpansOf(historical_data', historical_data[j].key)
        IN  \/ after = before
            \/ /\ Len(after) > 0
               /\ SubSeq(after, 1, Len(after) - 1) = before
            \/ /\ Len(after) > 0
               /\ Len(before) = TraceCap
               /\ SubSeq(after, 1, Len(after) - 1) = Tail(before)
SpanLifecycle ==
    /\ []SpansWellFormed
    /\ [][OpenUntilEnded /\ RecordedSpansKept]_vars

\* C17: a start_trace returns an id that no open span and no recorded span
\* has, also for the same name in the same millisecond, so it adds an open
\* span and replaces none.
IssuedTraceIds ==
    DictKeys(traces)
      \cup UNION {{TraceId(historical_data[i].val[k].name,
                           historical_data[i].val[k].start_time) :
                        k \in DOMAIN historical_data[i].val} :
                   i \in DOMAIN historical_data}
TraceIdsAreDistinct ==
    [][lastOp'.op = "start_trace"
          => /\ lastOp'.ret \notin IssuedTraceIds
             /\ Len(traces') = Len(traces) + 1
             /\ \A id \in DictKeys(traces) :
                    DictHas(traces', id) /\ DictGet(traces', id) = DictGet(traces, id)]_vars

\* C19: an end_trace that finds its span logs the threshold warning iff the
\* span's category has a threshold at that moment and the span's duration is
\* strictly above it; without a threshold for the category there is no
\* warning.
WarnedIffAboveThreshold ==
    [][(lastOp'.op = "end_trace" /\ DictHas(traces, lastOp'.trace_id))
          => LET span == DictGet(traces, lastOp'.trace_id)
                 duration == now - span.start_time
             IN  /\ lastOp'.ret # <<>>
                 /\ lastOp'.ret[1].duration_ms = Some(duration)
                 /\ lastOp'.warned
                      <=> /\ span.category \in DOMAIN tracker_thresholds
                          /\ duration > tracker_thresholds[span.category]
                 /\ span.category \notin DOMAIN tracker_thresholds
                      => ~lastOp'.warned]_vars
\* a span of a category whose threshold was set at run time took longer than
\* the threshold and the warning was logged
WarnedAboveRuntimeThreshold ==
    /\ lastOp.op = "end_trace"
    /\ lastOp.ret # <<>>
    /\ lastOp.warned
    /\ lastOp.ret[1].category = "api"
    /\ lastOp.ret[1].duration_ms[1] > TickMs

\* C18: for every category with recorded spans get_performance_metrics
\* reports a p95 that is absent when the category has fewer than 20
\* durations and is otherwise the element at zero-based index
\* floor(0.95 * count) of the durations in ascending order; for the 20
\* durations 1..20 it is 20.
\* v is at zero-based index idx of the ascending order of `values`
AtAscendingIndex(values, idx, v) ==
    /\ \E i \in DOMAIN values : values[i] = v
    /\ Cardinality({i \in DOMAIN values : values[i] < v}) <= idx
    /\ Cardinality({i \in DOMAIN values : values[i] <= v}) >= idx + 1
DurationsOf(spans) == [i \in DOMAIN spans |-> spans[i].duration_ms[1]]
P95AsSpecified(values, p95) ==
    /\ Len(values) < 20 => p95 = NoValue
    /\ Len(values) >= 20
          => /\ p95 # NoValue
             /\ AtAscendingIndex(values, (95 * Len(values)) \div 100, p95[1])
    /\ values = [i \in 1..20 |-> i] => p95 = Some(20)
P95MatchesDefinition ==
    [][lastOp'.op = "get_performance_metrics"
          => /\ DictKeys(lastOp'.ret)
                  = {historical_data[j].key : j \in
                        {i \in DOMAIN historical_data : historical_data[i].val # <<>>}}
             /\ \A e \in DOMAIN lastOp'.ret :
                   LET values == DurationsOf(SpansOf(historical_data, lastOp'.ret[e].key))
                   IN  /\ lastOp'.ret[e].val.count = Len(values)
                       /\ P95AsSpecified(values, lastOp'.ret[e].val.p95_ms)]_vars
\* the metrics of 20 spans whose durations are not in ascending order
P95OfTwentyUnordered ==
    /\ lastOp.op = "get_performance_metrics"
    /\ Len(lastOp.ret) = 1
    /\ lastOp.ret[1].val.count = 20
    /\ lastOp.ret[1].val.p95_ms = Some(20)
    /\ DurationsOf(SpansOf(historical_data, "api_request"))[1] = 20
\* the metrics of 19 spans: no p95
P95OfNineteenAbsent ==
    /\ lastOp.op = "get_performance_metrics"
    /\ Len(lastOp.ret) = 1
    /\ lastOp.ret[1].val.count = 19
    /\ lastOp.ret[1].val.p95_ms = NoValue

\* C20: a monitor cycle triggers an error_rate alert only if total_requests
\* is at least 10 and failed_requests / max(1, total_requests) is above the
\* configured max error rate; the alert has type error_rate and severity
\* error.
ErrorRateExceeded ==
    LET max_rate == thresholds["error_rate"]["max_error_rate"]
        total == IF total_requests < 1 THEN 1 ELSE total_requests
    IN  failed_requests * max_rate[2] > max_rate[1] * total
ErrorRateAlertTriggered ==
    /\ lastOp.op = "monitor_cycle"
    /\ lastOp.triggered # <<>>
    /\ total_requests >= 10
    /\ failed_requests < total_requests
    /\ \E i \in DOMAIN active_alerts :
          /\ active_alerts[i].val.type = "error_rate"
          /\ active_alerts[i].val.severity = "error"
P95Above(values, threshold_ms) ==
    /\ Len(values) >= 20
    /\ \E i \in DOMAIN values :
          /\ AtAscendingIndex(values, (95 * Len(values)) \div 100, values[i])
          /\ values[i] > threshold_ms
DetectorCondition(alert) ==
    \E e \in DOMAIN historical_data :
        LET category == historical_data[e].key
            threshold_key == ThresholdKey(category)
        IN  /\ "performance" \in DOMAIN thresholds
            /\ threshold_key \in DOMAIN thresholds["performance"]
            /\ P95Above(DurationsOf(historical_data[e].val),
                        thresholds["performance"][threshold_key])
            /\ alert.details.category = category
            /\ alert.details.threshold_ms = thresholds["performance"][threshold_key]
PerformanceAlertOnlyAboveThreshold ==
    [][lastOp'.op = "monitor_cycle"
          => /\ \A k \in DOMAIN lastOp'.triggered :
                   LET alert == DictGet(active_alerts', lastOp'.triggered[k])
                   IN  /\ DictHas(active_alerts', lastOp'.triggered[k])
                       /\ alert.type = "performance"
                            => alert.severity = "warning" /\ DetectorCondition(alert)
             /\ \A i \in DOMAIN active_alerts' :
                   (active_alerts'[i].val.type = "performance"
                      /\ ~DictHas(active_alerts, active_alerts'[i].key))
                      => active_alerts'[i].key \in SeqRange(lastOp'.triggered)]_vars
\* a cycle has triggered the alert on a p95 one millisecond above the
\* threshold
PerformanceAlertJustAbove ==
    /\ lastOp.op = "monitor_cycle"
    /\ lastOp.triggered # <<>>
    /\ LET alert == DictGet(active_alerts, lastOp.triggered[1])
       IN  /\ alert.type = "performance"
           /\ alert.details.category = "api_request"
           /\ alert.details.p95_ms = 2001
           /\ alert.details.threshold_ms = 2000
\* a cycle has triggered nothing on a p95 equal to the threshold, on 19
\* samples above it, and on a category without an alert threshold
NoAlertAtThreshold ==
    /\ lastOp.op = "monitor_cycle"
    /\ lastOp.triggered = <<>>
    /\ thresholds["performance"]["api_request_ms"] = 2000
    /\ DurationsOf(SpansOf(historical_data, "api_request")) = [i \in 1..20 |-> 2000]
NoAlertBelowMinimumSample ==
    /\ lastOp.op = "monitor_cycle"
    /\ lastOp.triggered = <<>>
    /\ DurationsOf(SpansOf(historical_data, "api_request")) = [i \in 1..19 |-> SlowMs]
NoAlertWithoutThreshold ==
    /\ lastOp.op = "monitor_cycle"
    /\ lastOp.triggered = <<>>
    /\ DurationsOf(SpansOf(historical_data, "database_query")) = [i \in 1..20 |-> SlowMs]

\* C22: when the sweep of a monitor cycle has completed, no performance alert
\* is left active whose details record a category and a threshold and whose
\* category has a defined p95 (at least 20 samples) below the recorded
\* threshold.
P95Below(values, threshold_ms) ==
    /\ Len(values) >= 20
    /\ \E i \in DOMAIN values :
          /\ AtAscendingIndex(values, (95 * Len(values)) \div 100, values[i])
          /\ values[i] < threshold_ms
RecordsCategoryAndThreshold(alert) ==
    /\ alert.type = "performance"
    /\ "category" \in DOMAIN alert.details
    /\ "threshold_ms" \in DOMAIN alert.details
Recovered(alert, hd) ==
    /\ RecordsCategoryAndThreshold(alert)
    /\ P95Below(DurationsOf(SpansOf(hd, alert.details.category)),
                alert.details.threshold_ms)
NoRecoveredAlertAfterSweep ==
    [][lastOp'.op = "monitor_cycle"
          => \A i \in DOMAIN active_alerts' :
                ~Recovered(active_alerts'[i].val, historical_data')]_vars

\* C23: the sweep of a monitor cycle resolves nothing else: every alert it
\* resolves was an active performance alert whose category had a defined p95
\* below the recorded threshold, and every other alert that was active (not
\* of type performance, or with an undefined p95, or with a p95 not below
\* the recorded threshold) is still active with the same contents.
SweepResolvesOnlyRecovered ==
    [][lastOp'.op = "monitor_cycle"
          => /\ \A k \in DOMAIN lastOp'.swept :
                   /\ DictHas(active_alerts, lastOp'.swept[k])
                   /\ Recovered(DictGet(active_alerts, lastOp'.swept[k]),
                                historical_data)
             /\ \A i \in DOMAIN active_alerts :
                   ~Recovered(active_alerts[i].val, historical_data)
                      => /\ DictHas(active_alerts', active_alerts[i].key)
                         /\ DictGet(active_alerts', active_alerts[i].key)
                               = active_alerts[i].val
             /\ IdsOf(resolved_alerts')
                   \subseteq IdsOf(resolved_alerts) \cup SeqRange(lastOp'.swept)]_vars
\* a cycle has resolved a recovered alert and left a system alert active
SweptBesideSystemAlert ==
    /\ lastOp.op = "monitor_cycle"
    /\ lastOp.swept # <<>>
    /\ \E i \in DOMAIN active_alerts : active_alerts[i].val.type = "system"
\* a cycle has left active a performance alert whose category's p95 equals
\* the recorded threshold
KeptAtRecordedThreshold ==
    /\ lastOp.op = "monitor_cycle"
    /\ lastOp.swept = <<>>
    /\ DurationsOf(SpansOf(historical_data, "api_request")) = [i \in 1..20 |-> 2000]
    /\ \E i \in DOMAIN active_alerts :
          RecordsCategoryAndThreshold(active_alerts[i].val)
\* a cycle has left active a performance alert whose category has 19 samples
KeptWithoutP95 ==
    /\ lastOp.op = "monitor_cycle"
    /\ lastOp.swept = <<>>
    /\ Len(SpansOf(historical_data, "api_request")) = 19
    /\ \E i \in DOMAIN active_alerts :
          RecordsCategoryAndThreshold(active_alerts[i].val)

\* C24: the monitor loop never terminates.  A cycle runs the performance
\* detector, then the error-rate detector, then the sweep; a cycle in which
\* a step raises keeps the effects of the steps before it, runs none of the
\* steps after it, and leaves the thread asleep, not ended; every cycle
\* whose sleep ends within the hours of the model is followed by another
\* cycle.
WakeTimes == {m * MonitorSleepMs : m \in 0..MaxMinutes}
TypesOf(ids, active) == [k \in DOMAIN ids |-> DictGet(active, ids[k]).type]
StepsInOrder ==
    [][lastOp'.op = "monitor_cycle"
          => LET types == TypesOf(lastOp'.triggered, active_alerts')
             IN  /\ \A j, k \in DOMAIN types :
                       (types[j] = "error_rate" /\ types[k] = "performance") => k < j
                 /\ lastOp'.raise_at = 1 => lastOp'.triggered = <<>>
                 /\ lastOp'.raise_at = 2
                       => \A k \in DOMAIN types : types[k] = "performance"
                 /\ lastOp'.raise_at # 0 => lastOp'.swept = <<>>
                 /\ monitor_wake' = now + MonitorSleepMs]_vars
MonitorLoopNeverEnds ==
    /\ [](threads["monitor"].pc = "sleep")
    /\ StepsInOrder
    /\ \A w \in WakeTimes : (monitor_wake = w) ~> (monitor_wake > w)
\* a cycle whose sweep raised after both detectors had triggered: the thread
\* sleeps
SweepRaisedThreadSleeps ==
    /\ lastOp.op = "monitor_cycle"
    /\ lastOp.raise_at = 3
    /\ Len(lastOp.triggered) = 2
    /\ threads["monitor"].pc = "sleep"
    /\ monitor_wake = now + MonitorSleepMs
\* a cycle that raised nothing, a minute after a cycle that had triggered
\* both alerts
CycleAfterCycle ==
    /\ lastOp.op = "monitor_cycle"
    /\ ~lastOp.raised
    /\ \E i, j \in DOMAIN active_alerts :
          /\ active_alerts[i].val.type = "performance"
          /\ active_alerts[j].val.type = "error_rate"
          /\ active_alerts[i].val.timestamp = active_alerts[j].val.timestamp
          /\ active_alerts[i].val.timestamp + MonitorSleepMs = now

\* C25: with two monitor threads on one alert system, the test that no alert
\* of the key is active and the trigger_alert that follows it are one
\* critical section: a thread inserts its alert only while no alert of the
\* same detector, category and hour is active, so two racing cycles never
\* both insert an active alert for one key.
ActiveForKey(active, category, t) ==
    {i \in DOMAIN active :
        /\ ByPerformanceDetector(active[i].val)
        /\ active[i].val.details.category = category
        /\ SameHour(active[i].val.timestamp, t)}
RacingCyclesInsertOnce ==
    [][lastOp'.op = "monitor_trigger"
          => /\ ActiveForKey(active_alerts, lastOp'.category, now) = {}
             /\ Cardinality(ActiveForKey(active_alerts', lastOp'.category, now)) = 1]_vars

\* C26: under every interleaving of concurrent start_request, record_* and
\* complete_request calls the collector behaves as if each call ran alone:
\* no call raises (of two concurrent complete_request calls for one id the
\* second returns none), and once the calls have returned total_requests is
\* the number of start_request calls and successful_requests +
\* failed_requests the number of completions that returned a context.
AllIdle == \A th \in Workers : threads[th].pc = "idle"
CollectorCallsAtomic ==
    /\ threads["tally"].raised = 0
    /\ AllIdle => /\ total_requests = threads["tally"].started
                  /\ successful_requests + failed_requests
                        = threads["tally"].returned
\* the two halves on their own
NoCallRaises == threads["tally"].raised = 0
NoIncrementLost ==
    AllIdle => /\ total_requests = threads["tally"].started
               /\ successful_requests + failed_requests = threads["tally"].returned

\* C27: whenever no trigger_alert or resolve_alert on an alert id is in
\* progress (no write has failed), the files of the alerts directory hold
\* exactly one record of that id, and it has the status the id has in
\* memory: active in the active set, resolved in the resolved list.
RecordsOf(alert_id) == {f \in DOMAIN alert_files : alert_files[f].id = alert_id}
StorageMirrorsMemory ==
    \A alert_id \in (ActiveIds \cup ResolvedIds) \ InProgress :
        LET alert == AlertObject(alert_id)
        IN  /\ RecordsOf(alert_id) = {AlertFileName(alert.status, alert.type, alert_id)}
            /\ \A f \in RecordsOf(alert_id) : alert_files[f].status = alert.status

\* C28: every alert triggered on an AlertSystem, by a caller or by a monitor
\* cycle, the first cycle that starts during the construction included, is
\* passed to the logging handler registered for its type.
EveryAlertLogged ==
    [][lastOp'.op \in {"trigger_alert", "monitor_trigger"}
          => \E k \in DOMAIN lastOp'.calls :
                /\ lastOp'.calls[k].handler = "_log_alert_handler"
                /\ lastOp'.calls[k].alert_id = lastOp'.ret]_vars

\* C29: generate_daily_report and generate_hourly_report are pure reads of
\* the collector: the active contexts, the aggregate counters and the
\* history (contents and order) are the same after a report as before it.
ReportsArePureReads ==
    [][lastOp'.op \in {"generate_daily_report", "generate_hourly_report"}
          => /\ active_contexts' = active_contexts
             /\ historical_metrics' = historical_metrics
             /\ total_requests' = total_requests
             /\ successful_requests' = successful_requests
             /\ failed_requests' = failed_requests
             /\ total_latency_ms' = total_latency_ms
             /\ tool_usage' = tool_usage
             /\ agent_usage' = agent_usage
             /\ guardrail_blocks' = guardrail_blocks]_vars
\* an hourly report that left records older than a day out, made while a
\* request is active
HourlyReportOverOldHistory ==
    /\ lastOp.op = "generate_hourly_report"
    /\ active_contexts # <<>>
    /\ Len(historical_metrics) = MaxSamples
    /\ LastDay(historical_metrics, now) # <<>>
    /\ Len(lastOp.ret.performance_trends) = 1
    /\ lastOp.ret.performance_trends[1].val.request_count < Len(historical_metrics)
\* a daily report over a history of two users, made while a request is active
DailyReportOverHistory ==
    /\ lastOp.op = "generate_daily_report"
    /\ active_contexts # <<>>
    /\ Len(historical_metrics) = MaxSamples
    /\ lastOp.ret.user_analytics.active_users = 2
    /\ lastOp.ret.performance_analytics.average_latency_ms[2] = MaxSamples

\* C30: every p95 an AnalyticsService report holds (overall, per tool, per
\* hour) follows the PerformanceTracker rule: absent below 20 samples,
\* else the value at zero-based index floor(0.95 * count) of the ascending
\* order.
HoursOf(metrics, hour) == SelectSeq(metrics, LAMBDA m : m.timestamp \div HourMs = hour)
CallsOf(metrics, tool) == SelectSeq(metrics, LAMBDA m : DictHas(m.tool_calls, tool))
OverallP95AsSpecified ==
    (/\ lastOp.op = "generate_daily_report"
     /\ historical_metrics # <<>>)
        => P95AsSpecified(Latencies(historical_metrics),
                          lastOp.ret.performance_analytics.p95_latency_ms)
ToolP95AsSpecified ==
    (/\ lastOp.op = "generate_daily_report"
     /\ historical_metrics # <<>>)
        => \A e \in DOMAIN lastOp.ret.performance_analytics.tool_performance :
              LET entry == lastOp.ret.performance_analytics.tool_performance[e]
              IN  P95AsSpecified(Latencies(CallsOf(historical_metrics, entry.key)),
                                 entry.val.p95_latency_ms)
HourP95AsSpecified ==
    (/\ lastOp.op = "generate_hourly_report"
     /\ LastDay(historical_metrics, now) # <<>>)
        => \A h \in DOMAIN lastOp.ret.performance_trends :
              LET entry == lastOp.ret.performance_trends[h]
              IN  P95AsSpecified(
                      Latencies(HoursOf(LastDay(historical_metrics, now), entry.key)),
                      entry.val.p95_latency_ms)
AnalyticsP95FollowsTrackerRule ==
    /\ OverallP95AsSpecified
    /\ ToolP95AsSpecified
    /\ HourP95AsSpecified
\* the per-tool and per-hour values alone
ToolAndHourP95FollowTrackerRule ==
    /\ ToolP95AsSpecified
    /\ HourP95AsSpecified
\* a report whose overall p95 is taken over fewer than 20 records
OverallP95BelowMinimumSample ==
    /\ lastOp.op = "generate_daily_report"
    /\ Len(historical_metrics) \in 1..19
    /\ lastOp.ret.performance_analytics.p95_latency_ms # NoValue
\* a tool p95 and an hour p95 over 20 records or more
ToolP95Reported ==
    /\ lastOp.op = "generate_daily_report"
    /\ historical_metrics # <<>>
    /\ \E e \in DOMAIN lastOp.ret.performance_analytics.tool_performance :
          lastOp.ret.performance_analytics.tool_performance[e].val.p95_latency_ms # NoValue
HourP95Reported ==
    /\ lastOp.op = "generate_hourly_report"
    /\ LastDay(historical_metrics, now) # <<>>
    /\ \E h \in DOMAIN lastOp.ret.performance_trends :
          lastOp.ret.performance_trends[h].val.p95_latency_ms # NoValue

\* C39: in every state reached by start_request, record_* and
\* complete_request calls, a start_request on an active id included,
\* total_requests = successful_requests + failed_requests + the number of
\* active contexts.
RequestsAccountedFor ==
    total_requests = successful_requests + failed_requests + Len(active_contexts)
\* C39, as the code has it: the requests counted and neither completed nor
\* active are those whose context a later start_request on the same id
\* replaced.  The difference starts at zero, a start_request on an active
\* id raises it by one and no other call changes it; without such a
\* start_request the equation holds.
Replaced ==
    total_requests - successful_requests - failed_requests - Len(active_contexts)
RequestsAccountedButReplaced ==
    /\ Replaced = 0
    /\ [][Replaced' = Replaced + (IF /\ lastOp'.op = "start_request"
                                     /\ DictHas(active_contexts, lastOp'.request_id)
                                  THEN 1 ELSE 0)]_vars
\* a replaced request stays counted after the id was completed
ReplacedThenCompleted ==
    /\ lastOp.op = "complete_request"
    /\ lastOp.ret # <<>>
    /\ active_contexts = <<>>
    /\ total_requests = 2
    /\ successful_requests + failed_requests = 1

\* C35: the archive of resolved alerts never holds more than its capacity
\* and holds the most recently resolved alerts in resolution order: a
\* resolve_alert that finds its alert appends it at the end after the oldest
\* is dropped from a full archive, and no other call touches the archive.
ArchiveIsMostRecentResolutions ==
    /\ [](Len(resolved_alerts) <= ResolvedCap)
    /\ [][IF lastOp'.op = "resolve_alert" /\ lastOp'.ret
          THEN /\ resolved_alerts' # <<>>
               /\ LET newest == resolved_alerts'[Len(resolved_alerts')]
                  IN  /\ newest.id = lastOp'.alert_id
                      /\ newest.status = "resolved"
                      /\ newest.resolved_at = Some(now)
                      /\ resolved_alerts'
                            = LastRecords(Append(resolved_alerts, newest), ResolvedCap)
          ELSE resolved_alerts' = resolved_alerts]_vars
\* a resolution after the archive was full: the record of an alert resolved
\* before is on disk and no longer in the archive
OldestResolutionDropped ==
    /\ lastOp.op = "resolve_alert"
    /\ lastOp.ret
    /\ Len(resolved_alerts) = ResolvedCap
    /\ resolved_alerts[ResolvedCap].id = lastOp.alert_id
    /\ \E f \in DOMAIN alert_files :
          /\ alert_files[f].status = "resolved"
          /\ \A i \in DOMAIN resolved_alerts : resolved_alerts[i].id # alert_files[f].id

\* C34: no span history of a category ever holds more than its capacity, and
\* it holds the most recently ended spans of the category in end order: an
\* end_trace that finds its span appends it to the history of the span's
\* category after the oldest is dropped from a full one, and changes the
\* history of no other category; no other call touches the histories.
HistoryOf(data, category) ==
    IF DictHas(data, category) THEN DictGet(data, category) ELSE <<>>
SpanHistoryIsMostRecentEnds ==
    /\ [](\A i \in DOMAIN historical_data : Len(historical_data[i].val) <= TraceCap)
    /\ [][IF lastOp'.op = "end_trace" /\ lastOp'.ret # <<>>
          THEN LET span == lastOp'.ret[1]
               IN  /\ span.end_time = Some(now)
                   /\ HistoryOf(historical_data', span.category)
                         = LastRecords(Append(HistoryOf(historical_data, span.category),
                                              span),
                                       TraceCap)
                   /\ DictKeys(historical_data')
                         = DictKeys(historical_data) \cup {span.category}
                   /\ \A c \in DictKeys(historical_data) \ {span.category} :
                         DictGet(historical_data', c) = DictGet(historical_data, c)
          ELSE historical_data' = historical_data]_vars
\* a span ended in a full category beside another full category: the oldest
\* span of its category went, the other category kept its first span
OldestSpanEvicted ==
    /\ lastOp.op = "end_trace"
    /\ lastOp.ret # <<>>
    /\ lastOp.ret[1].category = "database_query"
    /\ Len(HistoryOf(historical_data, "database_query")) = TraceCap
    /\ HistoryOf(historical_data, "database_query")[TraceCap] = lastOp.ret[1]
    /\ HistoryOf(historical_data, "database_query")[1].start_time = TraceCap + 1
    /\ Len(HistoryOf(historical_data, "api")) = TraceCap
    /\ HistoryOf(historical_data, "api")[1].start_time = 0

\* C38: the steps of a monitor cycle do not depend on each other's failure:
\* in a cycle whose performance detector raises, the error-rate detector
\* still runs (it triggers its alert when the error rate is above the
\* maximum over ten requests or more) and so does the sweep (it leaves no
\* performance alert active whose category's p95 is below the recorded
\* threshold).
ErrorRateHigh ==
    /\ total_requests >= MinErrorRateRequests
    /\ failed_requests * thresholds["error_rate"].max_error_rate[2]
          > thresholds["error_rate"].max_error_rate[1] * total_requests
TriggeredErrorRate ==
    \E k \in DOMAIN lastOp.triggered :
        DictGet(active_alerts, lastOp.triggered[k]).type = "error_rate"
ErrorRateTriggeredNextCycle ==
    /\ lastOp.op = "monitor_cycle"
    /\ lastOp.raise_at = 0
    /\ TriggeredErrorRate
    /\ now = MonitorSleepMs
    /\ Cardinality({i \in DOMAIN active_alerts :
                       active_alerts[i].val.type = "error_rate"}) = 1

\* C37: a failed write of an alert record neither reaches the caller nor
\* undoes the transition in memory.  A trigger_alert whose record is not on
\* disk afterwards still returns the id of an alert that is active and has
\* called every handler of the type; a resolve_alert of an active alert
\* whose resolved record is not on disk afterwards still returns true, with
\* the alert out of the active set and last in the archive as resolved.
\* The failed write leaves the files as they were.
WriteFailureStaysInside ==
    [][/\ (/\ lastOp'.op = "trigger_alert"
           /\ AlertFileName("active", lastOp'.alert_type, lastOp'.ret)
                 \notin DOMAIN alert_files')
             => /\ DictHas(active_alerts', lastOp'.ret)
                /\ DictGet(active_alerts', lastOp'.ret).status = "active"
                /\ [k \in DOMAIN lastOp'.calls |-> lastOp'.calls[k].handler]
                      = alert_handlers[lastOp'.alert_type]
                /\ \A k \in DOMAIN lastOp'.calls :
                      lastOp'.calls[k].alert_id = lastOp'.ret
                /\ alert_files' = alert_files
       /\ (/\ lastOp'.op = "resolve_alert"
           /\ DictHas(active_alerts, lastOp'.alert_id)
           /\ AlertFileName("resolved", DictGet(active_alerts, lastOp'.alert_id).type,
                            lastOp'.alert_id)
                 \notin DOMAIN alert_files')
             => /\ lastOp'.ret
                /\ ~DictHas(active_alerts', lastOp'.alert_id)
                /\ resolved_alerts' # <<>>
                /\ resolved_alerts'[Len(resolved_alerts')].id = lastOp'.alert_id
                /\ resolved_alerts'[Len(resolved_alerts')].status = "resolved"
                /\ alert_files' = alert_files]_vars
\* an alert triggered with a failed write and its two handlers called
TriggeredWithoutRecord ==
    /\ lastOp.op = "trigger_alert"
    /\ AlertFileName("active", lastOp.alert_type, lastOp.ret) \notin DOMAIN alert_files
    /\ DictHas(active_alerts, lastOp.ret)
    /\ Len(lastOp.calls) = Len(DefaultHandlers)
\* an alert with a record of its active status resolved with a failed write:
\* the record on disk still says active
ResolvedWithoutRecord ==
    /\ lastOp.op = "resolve_alert"
    /\ lastOp.ret
    /\ \E i \in DOMAIN resolved_alerts :
          /\ resolved_alerts[i].id = lastOp.alert_id
          /\ AlertFileName("resolved", resolved_alerts[i].type, lastOp.alert_id)
                \notin DOMAIN alert_files
          /\ AlertFileName("active", resolved_alerts[i].type, lastOp.alert_id)
                \in DOMAIN alert_files

(***************************************************************************)
(* C31: no thread writes an alert file while it holds the alert lock: on   *)
(* every path into _save_alert (trigger_alert, a resolve_alert called by a *)
(* request thread, a resolve_alert called by the sweep) the lock has been  *)
(* released before the write starts.                                       *)
(***************************************************************************)
NoWriteUnderLock ==
    \A th \in LockThreads :
        threads[th].pc = "save" => threads["alert_lock"].owner # th

\* the part of C31 that holds: the paths of the request threads
RequestWritesOutsideLock ==
    \A th \in RequestThreads :
        threads[th].pc = "save" => threads["alert_lock"].owner # th

\* the sweep's resolve_alert has written the file with the lock still held
SweepWroteUnderLock ==
    /\ lastOp.op = "save_alert"
    /\ lastOp.caller = "sweep"
    /\ lastOp.lock_owner = lastOp.thread
    /\ threads["alert_lock"].depth = 1

HandlersRanOnActiveAlert ==
    /\ lastOp.op = "handlers"
    /\ lastOp.in_active
    /\ lastOp.saved

(***************************************************************************)
(* C40: the system is deadlock-free.  No thread waits for a lock whose     *)
(* owner itself waits for a lock (the sweep, owner of the alert lock,      *)
(* takes it again in resolve_alert without waiting, and reads the tracker  *)
(* without its lock), and every lock is free again and again: no thread    *)
(* holds one forever.                                                      *)
(***************************************************************************)
LockWaitedFor(th) ==
    IF threads[th].pc \in {"trigger_acquire", "resolve_acquire", "sweep_acquire"}
       /\ ~MayAcquire(threads["alert_lock"], th)
    THEN "alert_lock"
    ELSE IF threads[th].pc = "trace_acquire" /\ ~MayAcquire(threads["trace_lock"], th)
    THEN "trace_lock"
    ELSE ""

NoWaitCycle ==
    \A th \in LockThreads :
        LockWaitedFor(th) # ""
            => /\ threads[LockWaitedFor(th)].owner \in LockThreads \ {th}
               /\ LockWaitedFor(threads[LockWaitedFor(th)].owner) = ""

DeadlockFree ==
    /\ []NoWaitCycle
    /\ []<>(threads["alert_lock"] = FreeLock)
    /\ []<>(threads["trace_lock"] = FreeLock)

\* a request thread waits for the alert lock while the sweep, its owner,
\* has taken it a second time in resolve_alert
SweepReacquiredWhileRequestWaits ==
    /\ threads["alert_lock"] = [owner |-> "monitor", depth |-> 2]
    /\ \E th \in RequestThreads : LockWaitedFor(th) = "alert_lock"

\* a request thread waits for the trace lock, which the other one holds
TraceLockWaitedFor ==
    \E th \in RequestThreads :
        /\ LockWaitedFor(th) = "trace_lock"
        /\ threads["trace_lock"].owner \in RequestThreads \ {th}

(***************************************************************************)
(* C33: the metrics writer loop never terminates.  Each pass writes the    *)
(* aggregates and the last RecentRequests records of the history (all of a *)
(* shorter one) and sleeps 300 s; a pass whose write fails logs the error  *)
(* and sleeps 60 s; no pass changes the collector; and every pass within   *)
(* the model's minutes is followed by another, a failed one by an attempt  *)
(* 60 s later.                                                             *)
(***************************************************************************)
WriterPass ==
    [][lastOp'.op = "metrics_writer"
          => /\ UNCHANGED collectorVars
             /\ threads'["writer"].running
             /\ IF lastOp'.outcome = "written"
                THEN /\ threads'["writer"].wake = now + MetricsWriterSleepMs
                     /\ threads'["writer"].logged = threads["writer"].logged
                     /\ LET file == DictGet(threads'["metrics_dir"],
                                            MetricsFileName(now))
                            n == Len(historical_metrics)
                        IN  /\ file.aggregates.total_requests = total_requests
                            /\ file.aggregates.successful_requests
                                  = successful_requests
                            /\ file.aggregates.failed_requests = failed_requests
                            /\ file.aggregates.active_requests = Len(active_contexts)
                            /\ file.aggregates.guardrail_blocks = guardrail_blocks
                            /\ file.timestamp = now
                            /\ Len(file.recent_requests) = Min(n, RecentRequests)
                            /\ \A k \in DOMAIN file.recent_requests :
                                  file.recent_requests[k]
                                     = historical_metrics[
                                           n - Len(file.recent_requests) + k]
                ELSE /\ threads'["writer"].wake = now + MetricsWriterRetryMs
                     /\ threads'["writer"].logged = threads["writer"].logged + 1
                     /\ \A f \in DictKeys(threads["metrics_dir"]) :
                           /\ DictHas(threads'["metrics_dir"], f)
                           /\ DictGet(threads'["metrics_dir"], f)
                                 = DictGet(threads["metrics_dir"], f)]_vars

WriterMinutes == 0..(MaxWriterMinutes - 1)

MetricsWriterNeverEnds ==
    /\ [](threads["writer"].running)
    /\ WriterPass
    /\ \A m \in WriterMinutes :
          (threads["writer"].wake = m * 60000)
             ~> (lastOp.op = "metrics_writer" /\ lastOp.t = m * 60000)
    /\ \A m \in WriterMinutes :
          (lastOp.op = "metrics_writer" /\ lastOp.outcome # "written"
              /\ lastOp.t = m * 60000)
             ~> (lastOp.op = "metrics_writer"
                   /\ lastOp.t = m * 60000 + MetricsWriterRetryMs)

\* a failed write of a history longer than a file holds, retried with
\* success a minute later: the file holds the last RecentRequests records
RetriedWriteOfLongHistory ==
    /\ lastOp.op = "metrics_writer"
    /\ lastOp.outcome = "written"
    /\ threads["writer"].logged = 1
    /\ now = MetricsWriterRetryMs
    /\ Len(historical_metrics) > RecentRequests
    /\ Len(DictGet(threads["metrics_dir"], MetricsFileName(now)).recent_requests)
          = RecentRequests

\* a second file, five minutes after the first, with the request that
\* arrived in between
SecondFileFiveMinutesLater ==
    /\ lastOp.op = "metrics_writer"
    /\ threads["writer"].logged = 0
    /\ Len(threads["metrics_dir"]) = 2
    /\ now = MetricsWriterSleepMs
    /\ DictGet(threads["metrics_dir"], MetricsFileName(now)).aggregates.active_requests = 1
    /\ DictGet(threads["metrics_dir"], MetricsFileName(0)).aggregates.active_requests = 0

(***************************************************************************)
(* C32: each of get_current_metrics, get_performance_metrics and           *)
(* get_active_alerts returns what it would return at an instant between    *)
(* operations (before the operation in progress began, or after it ends),  *)
(* and none of them raises because a structure changed under it.           *)
(***************************************************************************)
ReadersSeeOneInstant ==
    /\ lastOp.op = "get_current_metrics"
          => \E s \in lastOp.instants : lastOp.ret = GetCurrentMetrics(s.C)
    /\ lastOp.op = "get_performance_metrics"
          => /\ ~lastOp.raised
             /\ \E s \in lastOp.instants :
                   lastOp.ret = GetPerformanceMetrics(s.hd, tracker_thresholds)
    /\ lastOp.op = "get_active_alerts"
          => lastOp.ret = DictValues(active_alerts)

\* the part of C32 that holds: get_active_alerts, which takes the lock
ActiveAlertsReadAtOneInstant ==
    lastOp.op = "get_active_alerts" => lastOp.ret = DictValues(active_alerts)

\* get_current_metrics between the pop and the counters: the request is
\* neither active nor counted as successful or failed
ReadPoppedUncounted ==
    /\ lastOp.op = "get_current_metrics"
    /\ threads["worker"].pc = "count"
    /\ lastOp.ret.total_requests
          > lastOp.ret.successful_requests + lastOp.ret.failed_requests
              + lastOp.ret.active_requests

\* get_performance_metrics between the append and the pop(0): a category
\* with more spans than its capacity
ReadAboveCapacity ==
    /\ lastOp.op = "get_performance_metrics"
    /\ ~lastOp.raised
    /\ \E i \in DOMAIN lastOp.ret : lastOp.ret[i].val.count > TraceCap

\* get_performance_metrics whose loop was overtaken by the first end_trace
\* of a category
ReadRaised ==
    /\ lastOp.op = "get_performance_metrics"
    /\ lastOp.raised

\* get_active_alerts after a trigger_alert
ReadOneActiveAlert ==
    /\ lastOp.op = "get_active_alerts"
    /\ Len(lastOp.ret) = 1

====
